---- MODULE Spec2Model ----
(***************************************************************************)
(* Detail-page generation pipeline of btktool-apiyi:                       *)
(*   - planDetailPage / generateSectionImage / generateThumbnail /         *)
(*     generateFullDetailPage            (src/services/geminiService.ts)   *)
(*   - the App component's state, its handlers and its auto-snapshot       *)
(*     effect                            (src/App.tsx)                     *)
(*   - the settings modal               (src/unnamed/part_000)             *)
(*   - DetailPagePreview: hidden blocks, exports, scale buttons            *)
(*                                (src/components/DetailPagePreview.tsx)   *)
(*   - uploadToCloudinary           (src/services/cloudinaryService.ts)    *)
(*   - LOGIC_TYPE_STYLES / getTextStyle       (src/unnamed/part_002)       *)
(*                                                                         *)
(* The specifications share the variables:                                 *)
(*   SpecPlan   planDetailPage as a function of the input and of the text  *)
(*              service's answer;                                          *)
(*   SpecBatch  one call of generateFullDetailPage, its image requests     *)
(*              settling one by one in any order;                          *)
(*   Spec       the App component: submit, generation, preview edits,      *)
(*              regenerate, undo/redo, history, reset, settings;           *)
(*   SpecUndo   the App with saved items and a short undo stack;           *)
(*   SpecCap    the App with an undo stack at its cap of 50 snapshots;     *)
(*   SpecPreview  toggles, exports and reorders on a page in preview;      *)
(*   SpecScale  scale buttons, reorders and regenerations;                 *)
(*   SpecRegen  prompt edits, regenerations (two in flight), replacements, *)
(*              reorders and reset on a page in preview;                   *)
(*   SpecRegenLive  SpecRegen with every image request settling;           *)
(*   SpecDefer  a submission deferred for a missing key: the settings      *)
(*              modal, its auto-close timer and the generation;            *)
(*   SpecUpload one call of uploadToCloudinary;                            *)
(*   SpecRefs   the reference images a section or thumbnail request        *)
(*              attaches, for every list of product photos;                *)
(*   SpecStyle  getTextStyle called with role strings.                     *)
(***************************************************************************)
EXTENDS Integers, Sequences, FiniteSets, TLC

(***************************************************************************)
(* Bounds of the model                                                     *)
(***************************************************************************)
\* longest section list the text service answers with in SpecBatch
MaxSections == 3
\* longest section list the text service answers with in Spec
MaxPageSections == 2
\* regenerate requests and image replacements in one behaviour of Spec
MaxImages == 1
\* entries of the saved-page list (App.history) in Spec
MaxHistory == 1
\* loadFromHistory calls in one behaviour
MaxLoads == 2
\* product photos in productData.images (SpecRefs)
MaxRefs == 4
\* calls of getTextStyle in one behaviour (SpecStyle)
MaxStyleCalls == 2
\* executeGenerate calls in one behaviour of SpecDefer
MaxDeferred == 2
\* regenerate requests in flight at once in SpecRegen
MaxInFlight == 2
\* regenerate requests and image replacements in one behaviour of SpecRegen
MaxRegenImages == 3
\* clicks on the scale buttons in one behaviour of SpecScale
MaxScaleClicks == 2
\* saved items the App is mounted with in SpecUndo
MaxSaved == 2
\* regenerate requests in flight at the same time in Spec
MaxRegens == 1
\* executeGenerate calls in one behaviour of Spec
MaxGens == 1
\* auto-close timers of the settings modal pending at the same time
MaxTimers == 1

(***************************************************************************)
(* Program constants                                                       *)
(***************************************************************************)
\* geminiService.ts:185  price > 100000
PriceHigh == 100000
\* geminiService.ts:187  price > 30000
PriceMid == 30000
\* App.tsx:176  .slice(-50)
HistoryCap == 50
\* App.tsx:179  Math.min(prev + 1, 49)
HistoryIndexCap == 49

None == "none"

(***************************************************************************)
(* Values                                                                  *)
(***************************************************************************)
\* SalesLogicType
Roles ==
  {"hook", "solution", "clarity", "socialProof", "service", "riskReversal",
   "brandStory", "comparison"}

\* ProductData.pageLength: 5 | 7 | 9 | 'auto', or left out
PageLengths == {"auto", "5", "7", "9", "undefined"}

\* categories: "beauty" is '뷰티/화장품', "digitalIT" is '디지털/IT',
\* "fashion" stands for every other category, "" for none
Categories == {"beauty", "digitalIT", "fashion", ""}

Prices == {0, PriceMid - 1, PriceMid, PriceMid + 1,
           PriceHigh - 1, PriceHigh, PriceHigh + 1}

\* localStorage 'nanoBananaApiKey': absent, whitespace only, or a key
KeyValues == {"absent", "blank", "key"}

VARIABLES
  storedKey,      \* localStorage 'nanoBananaApiKey'
  productData,    \* the ProductData of the call (SpecPlan, SpecBatch)
  planResponse,   \* what the text service answers to the planning call
  planPrompt,     \* the planning request sent to the text service
  planResult,     \* what planDetailPage settles with
  \* one call of generateFullDetailPage (SpecBatch)
  bPc,            \* "planning", "images", "fulfilled", "rejected", "idle"
  bSections,      \* const sections = await planDetailPage(productData)
  bIssued,        \* image requests issued: section indices, 0 = thumbnail
  bArrival,       \* the settled section tasks, in the order they settled
  bThumb,         \* the thumbnail promise
  bResult,        \* what the call settles with
  \* the App component (Spec)
  step,                 \* state.step
  generatedImages,      \* identity of the state.generatedImages array:
                        \* 0 a fresh empty array, k > 0 the array of saved item k
  generatedPage,        \* state.generatedPage
  stateHistory,         \* undo/redo snapshots
  currentHistoryIndex,  \* 0-based index into stateHistory, -1 when empty
  isUndoRedoAction,
  history,              \* the saved pages (HistoryItem list), newest first
  showHistory,
  showSettings,
  pending,              \* pendingGenerate and pendingProductData
  timers,               \* pending auto-close timers of the settings modal
  gens,                 \* executeGenerate calls in flight
  attempts,             \* executeGenerate calls so far
  regens,               \* handleSectionRegenerate calls in flight
  imgSeq,               \* regenerate requests and replacements so far
  loads,                \* loadFromHistory calls so far
  lastEvent,            \* the handler that ran last and what it was given
  \* the DetailPagePreview component (SpecPreview, SpecScale)
  hiddenSections,       \* the layout slots unchecked in the section panel
  imageScales,          \* section id -> scale, 0 when the id has no entry
  ctlScale,             \* imageScale of each ImageFeedbackControl instance:
                        \* 0 the first section's, k the one keyed by id k
  ctlPrompt,            \* editablePrompt / isEditingPrompt of each instance
  exported,             \* what the handler that ran last exported
  clicks,               \* clicks on the scale buttons so far
  \* one call of uploadToCloudinary (SpecUpload)
  upInput,        \* base64Image: the image passed in
  upFolder,       \* folder
  upAnswer,       \* what the upload service answers
  upPc,           \* "idle", "uploaded" (uploadToCloudinary settled), "persisted"
                  \* (the try/catch of generateImageWithAPIYI around it is done)
  upResult,       \* what the call settled with
  \* one image request built by generateImageWithAPIYI (SpecRefs)
  refImages,      \* productData.images: the product photos of the form
  refPc,          \* "idle", "section" / "thumbnail" (request built), "threw"
  refParts,       \* the inline_data parts of the request, in order
  \* calls of getTextStyle (SpecStyle)
  styleCalls      \* the calls so far: logicType passed, value returned

planVars == <<storedKey, productData, planResponse, planPrompt, planResult>>
batchVars == <<bPc, bSections, bIssued, bArrival, bThumb, bResult>>
appVars == <<step, generatedImages, generatedPage, stateHistory,
             currentHistoryIndex, isUndoRedoAction, history, showHistory,
             showSettings, pending, timers, gens, attempts, regens, imgSeq,
             loads, lastEvent, hiddenSections, imageScales, ctlScale, ctlPrompt,
             exported, clicks>>
refVars == <<refImages, refPc, refParts>>
upVars == <<upInput, upFolder, upAnswer, upPc, upResult, refVars, styleCalls>>
vars == <<planVars, batchVars, appVars, upVars>>

(***************************************************************************)
(* getNanoBananaApiKey: throws unless the stored key is non-blank          *)
(***************************************************************************)
HasApiKey(k) == k = "key"

(***************************************************************************)
(* SALES_LOGIC_FRAMEWORK                                                   *)
(***************************************************************************)
SALES_LOGIC_FRAMEWORK ==
  [n \in {5, 7, 9} |->
     CASE n = 5 -> <<"hook", "solution", "clarity", "service", "riskReversal">>
       [] n = 7 -> <<"hook", "solution", "clarity", "socialProof", "service",
                     "riskReversal", "comparison">>
       [] n = 9 -> <<"hook", "solution", "clarity", "socialProof", "service",
                     "brandStory", "comparison", "riskReversal", "service">>]

(***************************************************************************)
(* planDetailPage, page length                                             *)
(***************************************************************************)
TargetLengthLoose(pd) ==
  IF pd.pageLength = "auto"
    THEN IF pd.price >= PriceHigh \/ pd.category \in {"beauty", "digitalIT"}
           THEN 9
           ELSE IF pd.price >= PriceMid THEN 7 ELSE 5
    ELSE CASE pd.pageLength = "5" -> 5
           [] pd.pageLength = "7" -> 7
           [] pd.pageLength = "9" -> 9
           [] OTHER -> 7

TargetLength(pd) ==
  IF pd.pageLength = "auto"
    THEN IF pd.price > PriceHigh \/ pd.category \in {"beauty", "digitalIT"}
           THEN 9
           ELSE IF pd.price > PriceMid THEN 7 ELSE 5
    ELSE CASE pd.pageLength = "5" -> 5
           [] pd.pageLength = "7" -> 7
           [] pd.pageLength = "9" -> 9
           [] OTHER -> 7

(***************************************************************************)
(* Image values: a section's imageUrl is absent, the placeholder SVG of    *)
(* getFallbackImage (a data: URL), a remote URL returned by the upload, or *)
(* the inline data: URL of a generated image whose upload failed.  n tells *)
(* generated images apart.                                                 *)
(***************************************************************************)
NoImage == [kind |-> "none", n |-> 0]
getFallbackImage == [kind |-> "fallback", n |-> 0]
RemoteImage(k) == [kind |-> "url", n |-> k]
InlineImage(k) == [kind |-> "inline", n |-> k]

\* img.startsWith('data:')
IsDataUrl(img) == img.kind \in {"fallback", "inline"}

(***************************************************************************)
(* The text service's answer to the planning call.                         *)
(*   networkError  fetch rejects                                           *)
(*   httpError     !response.ok                                            *)
(*   noJson        the text holds no {...}                                 *)
(*   badJson       JSON.parse throws                                       *)
(*   noSections    the parsed object has no sections array                 *)
(*   ok            parsed.sections is the list `sections`; an entry's      *)
(*                 order 0 stands for a missing (or zero) order            *)
(***************************************************************************)
PlanFailKinds == {"networkError", "httpError", "noJson", "badJson", "noSections"}

OrderModes == {"absent", "seq", "same"}

RespSections(types, mode) ==
  [i \in 1..Len(types) |->
     [logicType |-> types[i],
      order |-> CASE mode = "absent" -> 0
                  [] mode = "seq" -> i
                  [] OTHER -> 1]]

PlanResponses(lists) ==
  {[kind |-> k, sections |-> <<>>] : k \in PlanFailKinds}
  \cup {[kind |-> "ok", sections |-> RespSections(l, m)] :
          l \in lists, m \in OrderModes}

LogicTypesOf(secs) == [i \in 1..Len(secs) |-> secs[i].logicType]

\* answers built from the role templates: the template itself, one entry
\* dropped or added, two neighbours exchanged, one role replaced
SwapAt(t, i) ==
  [k \in 1..Len(t) |-> IF k = i THEN t[i + 1] ELSE IF k = i + 1 THEN t[i] ELSE t[k]]
SubstAt(t, i, r) == [k \in 1..Len(t) |-> IF k = i THEN r ELSE t[k]]
Variants(t) ==
  {t, SubSeq(t, 1, Len(t) - 1), Append(t, "hook")}
  \cup {SwapAt(t, i) : i \in 1..(Len(t) - 1)}
  \cup {SubstAt(t, i, IF t[i] = "comparison" THEN "brandStory" ELSE "comparison") :
          i \in 1..Len(t)}
TemplateVariants == UNION {Variants(SALES_LOGIC_FRAMEWORK[n]) : n \in {5, 7, 9}}

\* answers of at most MaxSections entries: the beginnings of the templates
ShortLists ==
  {SubSeq(SALES_LOGIC_FRAMEWORK[n], 1, k) : n \in {5}, k \in 0..MaxSections}

(***************************************************************************)
(* planDetailPage                                                          *)
(***************************************************************************)
PlanPending == [status |-> "pending", error |-> None, sections |-> <<>>]
Rejected(err) == [status |-> "rejected", error |-> err, sections |-> <<>>]

\* parsed.sections.map((section, idx) => ({...}))
PlannedSection(section, idx) ==
  [id |-> idx,
   order |-> IF section.order # 0 THEN section.order ELSE idx,
   logicType |-> section.logicType,
   visualPrompt |-> "planned",
   imageUrl |-> NoImage,
   isGenerating |-> FALSE]

planDetailPageLenient(key, pd, resp) ==
  IF ~HasApiKey(key) THEN Rejected("NO_API_KEY")
  ELSE IF resp.kind \in {"networkError", "httpError"} THEN Rejected("PLAN_FAILED")
  ELSE IF resp.kind # "ok"
    THEN [status |-> "fulfilled", error |-> None, sections |-> <<>>]
  ELSE [status |-> "fulfilled", error |-> None,
        sections |-> [idx \in 1..Len(resp.sections) |->
                        PlannedSection(resp.sections[idx], idx)]]

planDetailPage(key, pd, resp) ==
  IF ~HasApiKey(key) THEN Rejected("NO_API_KEY")
  ELSE IF resp.kind \in {"networkError", "httpError"} THEN Rejected("PLAN_FAILED")
  ELSE IF resp.kind = "noJson" THEN Rejected("NOT_JSON")
  ELSE IF resp.kind = "badJson" THEN Rejected("SyntaxError")
  ELSE IF resp.kind = "noSections" THEN Rejected("TypeError")
  ELSE [status |-> "fulfilled", error |-> None,
        sections |-> [idx \in 1..Len(resp.sections) |->
                        PlannedSection(resp.sections[idx], idx)]]

\* the role sequence the planning prompt asks for
logicSequence(pd) == SALES_LOGIC_FRAMEWORK[TargetLength(pd)]

\* the planning request: nothing is sent when the key is missing
NoPrompt == [sent |-> FALSE, targetLength |-> 0, logicSequence |-> <<>>]
PlanPrompt(key, pd) ==
  IF HasApiKey(key)
    THEN [sent |-> TRUE, targetLength |-> TargetLength(pd),
          logicSequence |-> logicSequence(pd)]
    ELSE NoPrompt

ProductInputs(lengths, prices, cats, thumbs) ==
  [pageLength : lengths, price : prices, category : cats, thumbnailConfig : thumbs]

(***************************************************************************)
(* What the image service does with one request:                           *)
(*   url      an image comes back and its upload returns a remote URL      *)
(*   inline   an image comes back, the upload fails: the data: URL is kept *)
(*   error    HTTP error, empty or unusable answer, network error          *)
(*   timeout  the 90 s AbortController fires                               *)
(*   quota    HTTP 429 or an insufficient/quota/billing message            *)
(***************************************************************************)
Outcomes == {"url", "inline", "error", "timeout", "quota"}
OrdinaryFailures == {"error", "timeout"}
Successes == {"url", "inline"}

Fulfilled(v) == [status |-> "fulfilled", error |-> None, value |-> v]
RejectedWith(e) == [status |-> "rejected", error |-> e, value |-> NoImage]

(***************************************************************************)
(* uploadToCloudinary.  The upload service answers                         *)
(*   ok            response.ok, secure_url is the stored image's URL       *)
(*   httpError     !response.ok                                            *)
(*   networkError  fetch rejects                                           *)
(* requests: the fetches sent                                              *)
(***************************************************************************)
UploadAnswers == {"ok", "httpError", "networkError"}
UploadFolders == {"ai-detail-page", "generated-images", "shared-pages"}

Uploaded(r, requests) == [status |-> r.status, error |-> r.error, value |-> r.value,
                          requests |-> requests]
UploadPending == [status |-> "pending", error |-> None, value |-> NoImage,
                  requests |-> 0]

uploadToCloudinary(base64Image, folder, answer) ==
  IF base64Image.kind = "url" THEN Uploaded(Fulfilled(base64Image), 0)
  ELSE IF base64Image.kind = "fallback" THEN Uploaded(RejectedWith("SVG"), 0)
  ELSE IF answer = "ok" THEN Uploaded(Fulfilled(RemoteImage(base64Image.n)), 1)
  ELSE Uploaded(RejectedWith("UPLOAD_FAILED"), 1)

\* generateImageWithAPIYI, lines 129-135:
\* try { return await uploadToCloudinary(base64Image, 'generated-images') }
\* catch { return base64Image }
PersistUncaught(base64Image, answer) ==
  uploadToCloudinary(base64Image, "generated-images", answer).value
Persist(base64Image, answer) ==
  LET r == uploadToCloudinary(base64Image, "generated-images", answer) IN
    IF r.status = "fulfilled" THEN r.value ELSE base64Image

\* generateImageWithAPIYI: the image of request n, or the error thrown
generateImageWithAPIYI(key, outcome, n) ==
  IF ~HasApiKey(key) THEN RejectedWith("NO_API_KEY")
  ELSE CASE outcome = "url" -> Fulfilled(Persist(InlineImage(n), "ok"))
         [] outcome = "inline" -> Fulfilled(Persist(InlineImage(n), "httpError"))
         [] outcome = "quota" -> RejectedWith("CREDITS_INSUFFICIENT")
         [] outcome = "timeout" -> RejectedWith("TIMEOUT")
         [] OTHER -> RejectedWith("API_ERROR")

\* generateSectionImage: try { return await generateImageWithAPIYI(...) }
\* catch { CREDITS_INSUFFICIENT is rethrown, anything else -> placeholder }
generateSectionImage(key, outcome, n) ==
  LET r == generateImageWithAPIYI(key, outcome, n) IN
    IF r.status = "fulfilled" THEN r
    ELSE IF r.error = "CREDITS_INSUFFICIENT" THEN r
    ELSE Fulfilled(getFallbackImage)

\* generateThumbnail: the same try/catch around the 1:1 request
generateThumbnail(key, outcome, n) ==
  LET r == generateImageWithAPIYI(key, outcome, n) IN
    IF r.status = "fulfilled" THEN r
    ELSE IF r.error = "CREDITS_INSUFFICIENT" THEN r
    ELSE Fulfilled(getFallbackImage)

\* regenerateSection
regenerateSection(key, outcome, n) == generateSectionImage(key, outcome, n)

(***************************************************************************)
(* generateFullDetailPage                                                  *)
(***************************************************************************)
TaskDone(sec) == [status |-> "fulfilled", error |-> None, section |-> sec]
TaskFailed(e, sec) == [status |-> "rejected", error |-> e, section |-> sec]

\* a variant of the task without its own try/catch
SectionTaskUncaught(section, r) ==
  IF r.status = "fulfilled" /\ r.value # getFallbackImage
    THEN TaskDone([section EXCEPT !.imageUrl = r.value, !.isGenerating = FALSE])
    ELSE TaskFailed(IF r.status = "rejected" THEN r.error ELSE "API_ERROR", section)

\* sections.map(async (section) => { try {...} catch {...} }), r being what
\* generateSectionImage settled with
SectionTask(section, r) ==
  IF r.status = "fulfilled"
    THEN TaskDone([section EXCEPT !.imageUrl = r.value, !.isGenerating = FALSE])
    ELSE TaskDone([section EXCEPT !.isGenerating = FALSE])

NoThumbnail == [present |-> FALSE, imageUrl |-> NoImage]

\* generateThumbnail(productData).then(url => ({imageUrl: url, prompt}))
\*                               .catch(() => undefined)
ThumbnailTask(r) ==
  IF r.status = "fulfilled"
    THEN [present |-> TRUE, imageUrl |-> r.value]
    ELSE NoThumbnail

ThumbIdle == [state |-> "none", outcome |-> None, value |-> NoThumbnail]
ThumbPending == [state |-> "pending", outcome |-> None, value |-> NoThumbnail]

\* the entry of the arrival list that belongs to section index i
ArrivalOf(arr, i) == CHOOSE k \in 1..Len(arr) : arr[k].req = i
SettledReqs(arr) == {arr[k].req : k \in 1..Len(arr)}

\* a variant that collects the values as they arrive
PromiseAllValuesByArrival(arr) == [k \in 1..Len(arr) |-> arr[k].task.section]

\* Promise.all(imagePromises): the values, in the order of the promises
PromiseAllValues(arr) ==
  [i \in 1..Len(arr) |-> arr[ArrivalOf(arr, i)].task.section]

\* the first task that rejected, if any (Promise.all rejects with it)
RejectedTasks(arr) == {k \in 1..Len(arr) : arr[k].task.status = "rejected"}
FirstRejected(arr) ==
  CHOOSE k \in RejectedTasks(arr) : \A j \in RejectedTasks(arr) : k <= j

PageOf(secs, thumb) == [exists |-> TRUE, sections |-> secs, thumbnail |-> thumb]
\* generatedPage: null
NoPage == [exists |-> FALSE, sections |-> <<>>, thumbnail |-> NoThumbnail]

BatchPending == [status |-> "pending", error |-> None, page |-> NoPage]
BatchRejected(e) == [status |-> "rejected", error |-> e, page |-> NoPage]
BatchFulfilled(pg) == [status |-> "fulfilled", error |-> None, page |-> pg]

\* what the call returns once Promise.all settles
BatchOutcome(arr, thumb) ==
  IF RejectedTasks(arr) # {}
    THEN BatchRejected(arr[FirstRejected(arr)].task.error)
    ELSE BatchFulfilled(PageOf(PromiseAllValues(arr), thumb.value))

BatchIdle ==
  /\ bPc = "idle"
  /\ bSections = <<>>
  /\ bIssued = {}
  /\ bArrival = <<>>
  /\ bThumb = ThumbIdle
  /\ bResult = BatchPending

(***************************************************************************)
(* The App component's state                                               *)
(***************************************************************************)
\* the productData of the initial state and of handleReset
EmptyProductData ==
  [pageLength |-> "undefined", price |-> 0, category |-> "", thumbnailConfig |-> FALSE]

\* the inputs submitted in Spec
AppInputs == ProductInputs({"auto"}, {PriceMid}, {"fashion"}, {FALSE})

\* the planning answers in Spec
AppResponses ==
  {[kind |-> k, sections |-> <<>>] : k \in PlanFailKinds}
  \cup {[kind |-> "ok", sections |-> RespSections(SubSeq(SALES_LOGIC_FRAMEWORK[5], 1, k), "seq")] :
          k \in 0..MaxPageSections}

AppStateOf(st, pd, gi, gp) ==
  [step |-> st, productData |-> pd, generatedImages |-> gi, generatedPage |-> gp]
CurrentState == AppStateOf(step, productData, generatedImages, generatedPage)

NoPending == [flag |-> FALSE, data |-> EmptyProductData]
Ev(op, id, outcome, img, issued, key, status) ==
  [op |-> op, id |-> id, outcome |-> outcome, img |-> img, issued |-> issued,
   key |-> key, status |-> status]
NoEvent == Ev("none", 0, None, NoImage, 0, None, None)

\* the requests that reach the image service out of n calls of
\* generateImageWithAPIYI: it reads the key before it builds the request
IssuedWith(key, n) == IF HasApiKey(key) THEN n ELSE 0

(***************************************************************************)
(* DetailPagePreview: layout slots, what the preview area shows, exports   *)
(***************************************************************************)
SectionIds == 1..MaxSections
\* the ImageFeedbackControl instances: 0 is the one of the first section
\* (it has no key), k the one inside the element keyed by section id k
ControlKeys == 0..MaxSections

\* the checkboxes of the section panel
LayoutSlots == {"header", "pricing", "hero", "features", "usage", "cta", "footer"}

\* handleDownloadZip's layoutId of the section at position i of n
layoutId(i, n) == IF i = 1 THEN "hero" ELSE IF i = n THEN "usage" ELSE "features"

toggleSectionAddOnly(hidden, sectionId) == hidden \cup {sectionId}
toggleSection(hidden, sectionId) ==
  IF sectionId \in hidden THEN hidden \ {sectionId} ELSE hidden \cup {sectionId}

\* the positions whose <img> is in the preview area: the first section in
\* the hero block, sections.slice(1, -1) in the features blocks, the last
\* section in the usage block when there is more than one section
RenderedImages(secs, hidden) ==
  {i \in 1..Len(secs) :
     /\ secs[i].imageUrl # NoImage
     /\ \/ i = 1 /\ "hero" \notin hidden
        \/ i \in 2..(Len(secs) - 1) /\ "features" \notin hidden
        \/ i = Len(secs) /\ Len(secs) > 1 /\ "usage" \notin hidden}

\* the positions handleDownloadZip does not skip before fetching
ZipCandidatesAll(secs, hidden) ==
  {i \in 1..Len(secs) : secs[i].imageUrl # NoImage}
ZipCandidates(secs, hidden) ==
  {i \in 1..Len(secs) :
     ~(secs[i].imageUrl = NoImage \/ layoutId(i, Len(secs)) \in hidden)}

NoExport == [kind |-> "none", ok |-> TRUE, items |-> {}, failed |-> {}]
ImageItems(secs, at) ==
  {[pos |-> i, id |-> secs[i].id, src |-> secs[i].imageUrl] : i \in at}

\* handleDownloadFullPage: html2canvas draws the preview area, or throws
RasterOf(secs, hidden, ok) ==
  [kind |-> "jpg", ok |-> ok,
   items |-> IF ok THEN ImageItems(secs, RenderedImages(secs, hidden)) ELSE {},
   failed |-> {}]

\* handleDownloadZip, failed being the positions whose fetch throws
ZipOfAborting(secs, hidden, failed) ==
  [kind |-> "zip", ok |-> ZipCandidates(secs, hidden) \cap failed = {},
   items |-> ImageItems(secs, {i \in ZipCandidates(secs, hidden) :
                                 \A j \in ZipCandidates(secs, hidden) \cap failed : i < j}),
   failed |-> failed]
ZipOf(secs, hidden, failed) ==
  [kind |-> "zip", ok |-> TRUE,
   items |-> ImageItems(secs, ZipCandidates(secs, hidden) \ failed),
   failed |-> failed]

\* handleCopyHTML: processNode keeps an <img> whose src has no 'data:';
\* ok: navigator.clipboard.writeText resolved
MarkupOfUnfiltered(secs, hidden, ok) ==
  [kind |-> "html", ok |-> ok,
   items |-> IF ok THEN ImageItems(secs, RenderedImages(secs, hidden)) ELSE {},
   failed |-> {}]
MarkupOf(secs, hidden, ok) ==
  [kind |-> "html", ok |-> ok,
   items |-> IF ok
               THEN ImageItems(secs, {i \in RenderedImages(secs, hidden) :
                                        ~IsDataUrl(secs[i].imageUrl)})
               ELSE {},
   failed |-> {}]

\* the position of the section with id k, 0 when there is none
PosOf(secs, k) ==
  IF \E i \in 1..Len(secs) : secs[i].id = k
    THEN CHOOSE i \in 1..Len(secs) : secs[i].id = k
    ELSE 0

\* the block in which each ImageFeedbackControl instance is rendered
ControlAt(secs, hidden) ==
  [k \in ControlKeys |->
     IF k = 0
       THEN IF Len(secs) > 0 /\ "hero" \notin hidden /\ secs[1].imageUrl # NoImage
              THEN "hero" ELSE "none"
       ELSE LET i == PosOf(secs, k) IN
              IF /\ i > 1
                 /\ i \in RenderedImages(secs, hidden)
                 /\ ~secs[i].isGenerating
                THEN layoutId(i, Len(secs)) ELSE "none"]

\* useState(100) of an instance that is mounted by this render; an instance
\* that stays in its block keeps its imageScale
Remounted(ctl, before, after) ==
  [k \in ControlKeys |->
     IF after[k] # "none" /\ after[k] = before[k] THEN ctl[k] ELSE 100]

\* the scale the preview applies to the section with this id:
\* imageScales[id] || 100
AppliedScale(scales, id) == IF scales[id] = 0 THEN 100 ELSE scales[id]

NoScales == [k \in SectionIds |-> 0]
FreshControls == [k \in ControlKeys |-> 100]

\* editablePrompt and isEditingPrompt of an instance: "planned" is
\* useState(section.visualPrompt) untouched, "edited" a text typed into the
\* textarea with the editor open, "kept" that text with the editor closed
PromptStates == {"planned", "edited", "kept"}
FreshPrompts == [k \in ControlKeys |-> "planned"]

\* useState(section.visualPrompt || '') of an instance mounted by this render
RemountedPrompt(ctl, before, after) ==
  [k \in ControlKeys |->
     IF after[k] # "none" /\ after[k] = before[k] THEN ctl[k] ELSE "planned"]

\* handleRegenerate: setIsEditingPrompt(false), editablePrompt is kept
EditorClosed(ctl, k) == [ctl EXCEPT ![k] = IF @ = "edited" THEN "kept" ELSE @]

PreviewIdle ==
  /\ hiddenSections = {}
  /\ imageScales = NoScales
  /\ ctlScale = FreshControls
  /\ ctlPrompt = FreshPrompts
  /\ exported = NoExport
  /\ clicks = 0

\* what a render of App does to DetailPagePreview: it stays mounted while the
\* preview step has a page, and starts from useState's initial values when
\* it is mounted again
\* prompts: the controls' prompt editors as the handler left them
PreviewFollowsFrom(prompts) ==
  /\ IF step = "preview" /\ generatedPage.exists
        /\ step' = "preview" /\ generatedPage'.exists
       THEN /\ hiddenSections' = hiddenSections
            /\ imageScales' = imageScales
            /\ ctlScale' = Remounted(ctlScale,
                                     ControlAt(generatedPage.sections, hiddenSections),
                                     ControlAt(generatedPage'.sections, hiddenSections))
            /\ ctlPrompt' = RemountedPrompt(prompts,
                                     ControlAt(generatedPage.sections, hiddenSections),
                                     ControlAt(generatedPage'.sections, hiddenSections))
       ELSE /\ hiddenSections' = {}
            /\ imageScales' = NoScales
            /\ ctlScale' = FreshControls
            /\ ctlPrompt' = FreshPrompts
  /\ exported' = NoExport
  /\ clicks' = clicks

PreviewFollows == PreviewFollowsFrom(ctlPrompt)

UploadIdle ==
  /\ refImages = <<>>
  /\ refPc = "idle"
  /\ refParts = <<>>
  /\ styleCalls = <<>>
  /\ upInput = NoImage
  /\ upFolder = "ai-detail-page"
  /\ upAnswer = "ok"
  /\ upPc = "idle"
  /\ upResult = UploadPending

AppIdle ==
  /\ UploadIdle
  /\ step = "input"
  /\ generatedImages = 0
  /\ generatedPage = NoPage
  /\ stateHistory = <<>>
  /\ currentHistoryIndex = -1
  /\ isUndoRedoAction = FALSE
  /\ history = <<>>
  /\ showHistory = FALSE
  /\ showSettings = FALSE
  /\ pending = NoPending
  /\ timers = <<>>
  /\ gens = <<>>
  /\ attempts = 0
  /\ regens = <<>>
  /\ imgSeq = 0
  /\ loads = 0
  /\ lastEvent = NoEvent
  /\ PreviewIdle

PlanIdle ==
  /\ planResponse = [kind |-> "ok", sections |-> <<>>]
  /\ planPrompt = NoPrompt
  /\ planResult = PlanPending

(***************************************************************************)
(* SpecPlan: planDetailPage applied to every input and answer              *)
(***************************************************************************)
InitPlan ==
  /\ storedKey \in KeyValues
  /\ productData \in ProductInputs(PageLengths, Prices, Categories, {FALSE})
  /\ planResponse \in PlanResponses(TemplateVariants)
  /\ planPrompt = NoPrompt
  /\ planResult = PlanPending
  /\ BatchIdle
  /\ AppIdle

PlanCall ==
  /\ planResult.status = "pending"
  /\ planPrompt' = PlanPrompt(storedKey, productData)
  /\ planResult' = planDetailPage(storedKey, productData, planResponse)
  /\ UNCHANGED <<storedKey, productData, planResponse, batchVars, appVars, upVars>>

NextPlan == PlanCall

SpecPlan == InitPlan /\ [][NextPlan]_vars

(***************************************************************************)
(* SpecBatch: one call of generateFullDetailPage                           *)
(***************************************************************************)
InitBatch ==
  /\ storedKey \in KeyValues
  /\ productData \in ProductInputs({"5"}, {0}, {""}, BOOLEAN)
  /\ planResponse \in PlanResponses(ShortLists)
  /\ planPrompt = PlanPrompt(storedKey, productData)
  /\ planResult = PlanPending
  /\ bPc = "planning"
  /\ bSections = <<>>
  /\ bIssued = {}
  /\ bArrival = <<>>
  /\ bThumb = ThumbIdle
  /\ bResult = BatchPending
  /\ AppIdle

\* const sections = await planDetailPage(productData); on success every
\* section request and the thumbnail request are issued at once
BatchPlanSettles ==
  /\ bPc = "planning"
  /\ LET r == planDetailPage(storedKey, productData, planResponse) IN
       /\ planResult' = r
       /\ IF r.status = "rejected"
            THEN /\ bPc' = "rejected"
                 /\ bResult' = BatchRejected(r.error)
                 /\ UNCHANGED <<bSections, bIssued, bThumb>>
            ELSE /\ bPc' = "images"
                 /\ bSections' = r.sections
                 /\ bIssued' = (1..Len(r.sections))
                                \cup (IF productData.thumbnailConfig THEN {0} ELSE {})
                 /\ bThumb' = IF productData.thumbnailConfig
                                THEN ThumbPending ELSE ThumbIdle
                 /\ UNCHANGED bResult
  /\ UNCHANGED <<storedKey, productData, planResponse, planPrompt, bArrival, appVars, upVars>>

\* the request of section i settles
BatchSectionSettles(i, outcome) ==
  /\ bPc = "images"
  /\ i \in (1..Len(bSections)) \ SettledReqs(bArrival)
  /\ bArrival' = Append(bArrival,
        [req |-> i, outcome |-> outcome,
         task |-> SectionTask(bSections[i],
                              generateSectionImage(storedKey, outcome, i))])
  /\ UNCHANGED <<planVars, bPc, bSections, bIssued, bThumb, bResult, appVars, upVars>>

\* the thumbnail request settles
BatchThumbnailSettles(outcome) ==
  /\ bPc = "images"
  /\ bThumb.state = "pending"
  /\ bThumb' = [state |-> "settled", outcome |-> outcome,
                 value |-> ThumbnailTask(generateThumbnail(storedKey, outcome, 0))]
  /\ UNCHANGED <<planVars, bPc, bSections, bIssued, bArrival, bResult, appVars, upVars>>

\* await Promise.all([Promise.all(imagePromises), thumbnailPromise]) settles:
\* when everything has settled, or as soon as one task has rejected
BatchReturns ==
  /\ bPc = "images"
  /\ \/ RejectedTasks(bArrival) # {}
     \/ /\ SettledReqs(bArrival) = 1..Len(bSections)
        /\ bThumb.state # "pending"
  /\ bResult' = BatchOutcome(bArrival, bThumb)
  /\ bPc' = bResult'.status
  /\ UNCHANGED <<planVars, bSections, bIssued, bArrival, bThumb, appVars, upVars>>

NextBatch ==
  \/ BatchPlanSettles
  \/ \E i \in 1..MaxSections, o \in Outcomes : BatchSectionSettles(i, o)
  \/ \E o \in Outcomes : BatchThumbnailSettles(o)
  \/ BatchReturns

SpecBatch == InitBatch /\ [][NextBatch]_vars

(***************************************************************************)
(* Spec: the App component                                                 *)
(***************************************************************************)
renderVars == <<step, productData, generatedImages, generatedPage, stateHistory,
                currentHistoryIndex, isUndoRedoAction>>
serviceVars == <<planResponse, planPrompt, planResult, batchVars, upVars>>

Min(a, b) == IF a < b THEN a ELSE b
LastNUncapped(q, n) == q
LastN(q, n) == IF Len(q) <= n THEN q ELSE SubSeq(q, Len(q) - n + 1, Len(q))
RemoveAt(q, i) == SubSeq(q, 1, i - 1) \o SubSeq(q, i + 1, Len(q))
InsertAt(q, i, x) == SubSeq(q, 1, i - 1) \o <<x>> \o SubSeq(q, i, Len(q))

\* the dependency list [state.generatedImages, state.generatedCopy] of the
\* auto-snapshot effect: a fresh array always differs from the one before,
\* the array of a saved item is the same object every time it is loaded;
\* generatedCopy is null throughout
DepsChanged(new, old) == new = 0 \/ new # old

\* the auto-snapshot effect: what it does when it runs after a render with
\* state st, with isUndoRedoAction = flag and currentHistoryIndex = idx
SnapshotTaken(flag, st) ==
  ~flag /\ st.step = "preview" /\ st.generatedImages # 0
EffectHistory(flag, st, hist, idx) ==
  IF SnapshotTaken(flag, st)
    THEN LastN(Append(SubSeq(hist, 1, Min(idx + 1, Len(hist))), st), HistoryCap)
    ELSE hist
EffectIndex(flag, st, idx) ==
  IF SnapshotTaken(flag, st) THEN Min(idx + 1, HistoryIndexCap) ELSE idx

\* one render: the handler has set state to new, isUndoRedoAction to flag and
\* currentHistoryIndex to idx; the effect runs if its dependencies changed
Commit(new, flag, idx) ==
  /\ step' = new.step
  /\ productData' = new.productData
  /\ generatedImages' = new.generatedImages
  /\ generatedPage' = new.generatedPage
  /\ IF DepsChanged(new.generatedImages, generatedImages)
       THEN /\ stateHistory' = EffectHistory(flag, new, stateHistory, idx)
            /\ currentHistoryIndex' = EffectIndex(flag, new, idx)
            /\ isUndoRedoAction' = FALSE
       ELSE /\ stateHistory' = stateHistory
            /\ currentHistoryIndex' = idx
            /\ isUndoRedoAction' = flag

\* setState(prev => ({...prev, generatedPage: pg}))
SetPage(pg) ==
  Commit([CurrentState EXCEPT !.generatedPage = pg], isUndoRedoAction,
         currentHistoryIndex)

\* a modal covers the page: nothing under it can be clicked
ModalOpen == showSettings \/ showHistory

\* sections.map(s => s.id === sectionId ? {...s, isGenerating: flag} : s)
MarkSection(pg, sectionId, flag) ==
  IF pg.exists
    THEN [pg EXCEPT !.sections =
            [i \in 1..Len(pg.sections) |->
               IF pg.sections[i].id = sectionId
                 THEN [pg.sections[i] EXCEPT !.isGenerating = flag]
                 ELSE pg.sections[i]]]
    ELSE pg

\* a write at the position the section had when the page was generated
PutImageAtIndex(pg, sectionId, img) ==
  IF pg.exists /\ sectionId \in 1..Len(pg.sections)
    THEN [pg EXCEPT !.sections[sectionId].imageUrl = img]
    ELSE pg

\* sections.map(s => s.id === sectionId ? {...s, imageUrl: img} : s)
PutImage(pg, sectionId, img) ==
  IF pg.exists
    THEN [pg EXCEPT !.sections =
            [i \in 1..Len(pg.sections) |->
               IF pg.sections[i].id = sectionId
                 THEN [pg.sections[i] EXCEPT !.imageUrl = img]
                 ELSE pg.sections[i]]]
    ELSE pg

\* executeGenerate up to its await: state is set and generateFullDetailPage
\* is called, which reads the key before its first request
ExecuteWithin(data, maxGens) ==
  /\ attempts < maxGens
  /\ attempts' = attempts + 1
  /\ Commit(AppStateOf("processing", data, 0, generatedPage),
            isUndoRedoAction, currentHistoryIndex)
  /\ gens' = Append(gens, [phase |-> "planning", data |-> data,
                           key |-> storedKey, sections |-> <<>>])
  /\ lastEvent' = NoEvent

ExecuteGenerate(data) == ExecuteWithin(data, MaxGens)

\* handleInputSubmit
HandleInputSubmit(data) ==
  /\ step = "input"
  /\ ~ModalOpen
  /\ attempts < MaxGens
  /\ IF ~HasApiKey(storedKey)
       THEN /\ pending' = [flag |-> TRUE, data |-> data]
            /\ showSettings' = TRUE
            /\ lastEvent' = NoEvent
            /\ UNCHANGED <<renderVars, gens, attempts>>
       ELSE /\ ExecuteGenerate(data)
            /\ UNCHANGED <<pending, showSettings>>
  /\ UNCHANGED <<storedKey, serviceVars, history, showHistory, timers, regens,
                 imgSeq, loads>>
  /\ PreviewFollows

\* generateFullDetailPage: planDetailPage settles.  On failure the call
\* rejects and executeGenerate's catch returns to the input step; otherwise
\* all image requests are issued
GenPlanSettles(g, resp) ==
  /\ g \in 1..Len(gens)
  /\ gens[g].phase = "planning"
  /\ LET r == planDetailPage(gens[g].key, gens[g].data, resp) IN
       IF r.status = "rejected"
         THEN /\ gens' = RemoveAt(gens, g)
              /\ Commit([CurrentState EXCEPT !.step = "input"],
                        isUndoRedoAction, currentHistoryIndex)
              /\ lastEvent' = Ev("planSettled", 0, resp.kind, NoImage, 0,
                                 gens[g].key, r.status)
         ELSE /\ gens' = [gens EXCEPT ![g] =
                            [phase |-> "images", data |-> gens[g].data,
                             key |-> storedKey, sections |-> r.sections]]
              /\ lastEvent' = Ev("planSettled", 0, resp.kind, NoImage,
                                 IssuedWith(storedKey, Len(r.sections)
                                   + (IF gens[g].data.thumbnailConfig THEN 1 ELSE 0)),
                                 gens[g].key, r.status)
              /\ UNCHANGED renderVars
  /\ UNCHANGED <<storedKey, serviceVars, history, showHistory, showSettings,
                 pending, timers, attempts, regens, imgSeq, loads>>
  /\ PreviewFollows

\* the tasks of a call whose requests settle with the outcomes out
TasksOf(gen, out) ==
  [i \in 1..Len(gen.sections) |->
     [req |-> i, outcome |-> out[i],
      task |-> SectionTask(gen.sections[i],
                           generateSectionImage(gen.key, out[i], i))]]
ThumbOf(gen, o) ==
  IF gen.data.thumbnailConfig
    THEN [state |-> "settled", outcome |-> o,
          value |-> ThumbnailTask(generateThumbnail(gen.key, o, 0))]
    ELSE ThumbIdle

\* generateFullDetailPage: Promise.all settles, executeGenerate continues
GenBatchSettles(g, out, o) ==
  /\ g \in 1..Len(gens)
  /\ gens[g].phase = "images"
  /\ LET res == BatchOutcome(TasksOf(gens[g], out), ThumbOf(gens[g], o)) IN
       /\ IF res.status = "fulfilled"
            THEN Commit([CurrentState EXCEPT !.step = "preview",
                                             !.generatedPage = res.page],
                        isUndoRedoAction, currentHistoryIndex)
            ELSE Commit([CurrentState EXCEPT !.step = "input"],
                        isUndoRedoAction, currentHistoryIndex)
       \* id: the calls of generateSectionImage and generateThumbnail made
       /\ lastEvent' = Ev("generated",
                          Len(gens[g].sections)
                            + (IF gens[g].data.thumbnailConfig THEN 1 ELSE 0),
                          None, NoImage, 0, gens[g].key, res.status)
  /\ gens' = RemoveAt(gens, g)
  /\ UNCHANGED <<storedKey, serviceVars, history, showHistory, showSettings,
                 pending, timers, attempts, regens, imgSeq, loads>>
  /\ PreviewFollows

\* handleReset
HandleReset ==
  /\ ~ModalOpen
  /\ Commit(AppStateOf("input", EmptyProductData, 0, NoPage),
            isUndoRedoAction, currentHistoryIndex)
  /\ lastEvent' = NoEvent
  /\ UNCHANGED <<storedKey, serviceVars, history, showHistory, showSettings,
                 pending, timers, gens, attempts, regens, imgSeq, loads>>
  /\ PreviewFollows

(***************************************************************************)
(* The preview: DetailPagePreview's controls and App's section handlers    *)
(***************************************************************************)
PreviewShown == step = "preview" /\ generatedPage.exists /\ ~ModalOpen

\* ImageFeedbackControl is rendered for the first section when it has an
\* image, for the others when they have an image and are not generating
ControlShown(secs, pos) ==
  /\ pos \in RenderedImages(secs, hiddenSections)
  /\ (pos = 1 \/ ~secs[pos].isGenerating)

\* the number of the image of the next regenerate request or replacement
NextImage == MaxSections + imgSeq + 1

\* the key of the ImageFeedbackControl instance of the section at pos
ControlKeyAt(secs, pos) == IF pos = 1 THEN 0 ELSE secs[pos].id

\* handleRegenerate of the control and handleSectionRegenerate up to its
\* await, with at most maxRegens requests in flight and maxImages images
\* (page tells which generated or loaded page the section was found in):
\* onUpdate(section.id, '') passes the id alone, and regenerateSection is given
\* the section found in state.generatedPage, with its visualPrompt
RegenerateWithin(pos, maxRegens, maxImages) ==
  /\ PreviewShown
  /\ ControlShown(generatedPage.sections, pos)
  /\ Len(regens) < maxRegens
  /\ imgSeq < maxImages
  /\ LET sec == generatedPage.sections[pos] IN
       /\ SetPage(MarkSection(generatedPage, sec.id, TRUE))
       /\ regens' = Append(regens, [id |-> sec.id, key |-> storedKey,
                                    startImage |-> sec.imageUrl,
                                    n |-> NextImage,
                                    prompt |-> sec.visualPrompt,
                                    page |-> attempts + loads,
                                    typed |-> ctlPrompt[ControlKeyAt(generatedPage.sections, pos)]])
       /\ lastEvent' = NoEvent
  /\ imgSeq' = imgSeq + 1
  /\ UNCHANGED <<storedKey, serviceVars, history, showHistory, showSettings,
                 pending, timers, gens, attempts, loads>>
  /\ PreviewFollowsFrom(EditorClosed(ctlPrompt, ControlKeyAt(generatedPage.sections, pos)))

HandleSectionRegenerate(pos) == RegenerateWithin(pos, MaxRegens, MaxImages)

\* handleSectionRegenerate after its await: regenerateSection settled
RegenSettles(k, outcome) ==
  /\ k \in 1..Len(regens)
  /\ LET rg == regens[k]
         r == regenerateSection(rg.key, outcome, rg.n)
     IN /\ IF r.status = "fulfilled"
             THEN SetPage(MarkSection(PutImage(generatedPage, rg.id, r.value),
                                      rg.id, FALSE))
             ELSE SetPage(MarkSection(generatedPage, rg.id, FALSE))
        /\ lastEvent' = Ev("regenSettled", rg.id, outcome, rg.startImage,
                           IssuedWith(rg.key, 1), rg.key, r.status)
  /\ regens' = RemoveAt(regens, k)
  /\ UNCHANGED <<storedKey, serviceVars, history, showHistory, showSettings,
                 pending, timers, gens, attempts, imgSeq, loads>>
  /\ PreviewFollows

\* onSectionUpdate(sectionId, newImageUrl) with an image read from a file,
\* with at most maxImages images in the behaviour
ReplaceWithin(pos, maxImages) ==
  /\ PreviewShown
  /\ ControlShown(generatedPage.sections, pos)
  /\ imgSeq < maxImages
  /\ LET sec == generatedPage.sections[pos]
     IN /\ SetPage(PutImage(generatedPage, sec.id, InlineImage(NextImage)))
        /\ lastEvent' = Ev("replace", sec.id, None, NoImage, 0, None, None)
  /\ imgSeq' = imgSeq + 1
  /\ UNCHANGED <<storedKey, serviceVars, history, showHistory, showSettings,
                 pending, timers, gens, attempts, regens, loads>>
  /\ PreviewFollows

ReplaceImage(pos) == ReplaceWithin(pos, MaxImages)

\* newSections.splice(fromIndex, 1); newSections.splice(toIndex, 0, moved)
MoveSectionSwap(secs, from, to) ==
  [i \in 1..Len(secs) |->
     IF i = from THEN secs[to] ELSE IF i = to THEN secs[from] ELSE secs[i]]
MoveSection(secs, from, to) == InsertAt(RemoveAt(secs, from), to, secs[from])

\* onSectionReorder, called by handleDrop when the indices differ
SectionReorder(from, to) ==
  /\ PreviewShown
  /\ from \in 1..Len(generatedPage.sections)
  /\ to \in 1..Len(generatedPage.sections)
  /\ from # to
  /\ SetPage([generatedPage EXCEPT
                !.sections = MoveSection(generatedPage.sections, from, to)])
  /\ lastEvent' = Ev("reorder", from, None, NoImage, to, None, None)
  /\ UNCHANGED <<storedKey, serviceVars, history, showHistory, showSettings,
                 pending, timers, gens, attempts, regens, imgSeq, loads>>
  /\ PreviewFollows

\* handleUndo: the handler does nothing unless currentHistoryIndex > 0
HandleUndo ==
  /\ step = "preview"
  /\ ~ModalOpen
  /\ IF currentHistoryIndex > 0
       THEN Commit(stateHistory[currentHistoryIndex], TRUE, currentHistoryIndex - 1)
       ELSE UNCHANGED renderVars
  /\ lastEvent' = Ev("undo", 0, None, NoImage, 0, None, None)
  /\ UNCHANGED <<storedKey, serviceVars, history, showHistory, showSettings,
                 pending, timers, gens, attempts, regens, imgSeq, loads>>
  /\ PreviewFollows

\* handleRedo: the handler does nothing unless a newer snapshot exists
HandleRedo ==
  /\ step = "preview"
  /\ ~ModalOpen
  /\ IF currentHistoryIndex < Len(stateHistory) - 1
       THEN Commit(stateHistory[currentHistoryIndex + 2], TRUE, currentHistoryIndex + 1)
       ELSE UNCHANGED renderVars
  /\ lastEvent' = Ev("redo", 0, None, NoImage, 0, None, None)
  /\ UNCHANGED <<storedKey, serviceVars, history, showHistory, showSettings,
                 pending, timers, gens, attempts, regens, imgSeq, loads>>
  /\ PreviewFollows

(***************************************************************************)
(* The saved pages                                                         *)
(***************************************************************************)
\* s.imageUrl && !s.imageUrl.startsWith('data:')
Savable(sec) == sec.imageUrl # NoImage /\ ~IsDataUrl(sec.imageUrl)

\* saveToHistory
SaveToHistory ==
  /\ PreviewShown
  /\ Len(generatedPage.sections) > 0
  /\ \E i \in 1..Len(generatedPage.sections) : Savable(generatedPage.sections[i])
  /\ Len(history) < MaxHistory
  /\ history' = <<[id |-> Len(history) + 1, productData |-> productData,
                   generatedPage |-> generatedPage]>> \o history
  /\ lastEvent' = NoEvent
  /\ UNCHANGED <<storedKey, serviceVars, renderVars, showHistory, showSettings,
                 pending, timers, gens, attempts, regens, imgSeq, loads>>
  /\ PreviewFollows

\* the history button of the input step, and the modal's close button
OpenHistory ==
  /\ step = "input"
  /\ ~ModalOpen
  /\ history # <<>>
  /\ showHistory' = TRUE
  /\ UNCHANGED <<storedKey, serviceVars, renderVars, history, showSettings,
                 pending, timers, gens, attempts, regens, imgSeq, loads>>
  /\ lastEvent' = NoEvent
  /\ PreviewFollows

CloseHistory ==
  /\ showHistory
  /\ showHistory' = FALSE
  /\ UNCHANGED <<storedKey, serviceVars, renderVars, history, showSettings,
                 pending, timers, gens, attempts, regens, imgSeq, loads>>
  /\ lastEvent' = NoEvent
  /\ PreviewFollows

\* loadFromHistory
LoadFromHistory(k) ==
  /\ showHistory
  /\ k \in 1..Len(history)
  /\ loads < MaxLoads
  /\ Commit(AppStateOf("preview", history[k].productData, history[k].id,
                       history[k].generatedPage),
            isUndoRedoAction, currentHistoryIndex)
  /\ showHistory' = FALSE
  /\ loads' = loads + 1
  /\ lastEvent' = NoEvent
  /\ UNCHANGED <<storedKey, serviceVars, history, showSettings, pending, timers,
                 gens, attempts, regens, imgSeq>>
  /\ PreviewFollows

(***************************************************************************)
(* The settings modal                                                      *)
(***************************************************************************)
\* the settings button of the input step
OpenSettings ==
  /\ step = "input"
  /\ ~ModalOpen
  /\ showSettings' = TRUE
  /\ UNCHANGED <<storedKey, serviceVars, renderVars, history, showHistory,
                 pending, timers, gens, attempts, regens, imgSeq, loads>>
  /\ lastEvent' = NoEvent
  /\ PreviewFollows

\* SettingsModal.handleSave (the button is enabled once a non-blank key has
\* been typed): the input is stored trimmed; with autoCloseOnSave
\* (= pendingGenerate) onClose is called 300 ms later, with the
\* pendingGenerate and pendingProductData of this render
SettingsSave ==
  /\ showSettings
  /\ storedKey' = "key"
  /\ IF pending.flag
       THEN /\ Len(timers) < MaxTimers
            /\ timers' = Append(timers, pending)
       ELSE timers' = timers
  /\ UNCHANGED <<serviceVars, renderVars, history, showHistory, showSettings,
                 pending, gens, attempts, regens, imgSeq, loads>>
  /\ lastEvent' = NoEvent
  /\ PreviewFollows

\* SettingsModal.handleClear
SettingsClear ==
  /\ showSettings
  /\ storedKey # "absent"
  /\ storedKey' = "absent"
  /\ UNCHANGED <<serviceVars, renderVars, history, showHistory, showSettings,
                 pending, timers, gens, attempts, regens, imgSeq, loads>>
  /\ lastEvent' = NoEvent
  /\ PreviewFollows

\* the onClose passed to SettingsModal, p being the pendingGenerate and
\* pendingProductData of the render the closure belongs to, with at most
\* maxGens executeGenerate calls in the behaviour
OnClose(p, maxGens) ==
  /\ showSettings' = FALSE
  /\ IF p.flag
       THEN /\ pending' = NoPending
            /\ IF HasApiKey(storedKey)
                 THEN ExecuteWithin(p.data, maxGens)
                 ELSE /\ lastEvent' = NoEvent
                      /\ UNCHANGED <<renderVars, gens, attempts>>
       ELSE /\ lastEvent' = NoEvent
            /\ UNCHANGED <<pending, renderVars, gens, attempts>>

\* the modal's close button
CloseWithin(maxGens) ==
  /\ showSettings
  /\ OnClose(pending, maxGens)
  /\ UNCHANGED <<storedKey, serviceVars, history, showHistory, timers, regens,
                 imgSeq, loads>>
  /\ PreviewFollows

SettingsClose == CloseWithin(MaxGens)

\* the 300 ms timer of handleSave fires
TimerWithin(t, maxGens) ==
  /\ t \in 1..Len(timers)
  /\ OnClose(timers[t], maxGens)
  /\ timers' = RemoveAt(timers, t)
  /\ UNCHANGED <<storedKey, serviceVars, history, showHistory, regens, imgSeq,
                 loads>>
  /\ PreviewFollows

TimerFires(t) == TimerWithin(t, MaxGens)

\* the ways a request of the App ends: an image, an ordinary failure, or
\* exhausted credits
AppOutcomes == {"url", "timeout", "quota"}

\* the key found in localStorage when the App starts
AppKeys == {"absent", "key"}

Init ==
  /\ storedKey \in AppKeys
  /\ productData = EmptyProductData
  /\ PlanIdle
  /\ BatchIdle
  /\ AppIdle

Next ==
  \/ \E d \in AppInputs : HandleInputSubmit(d)
  \/ \E g \in DOMAIN gens, resp \in AppResponses : GenPlanSettles(g, resp)
  \/ \E g \in DOMAIN gens, o \in AppOutcomes :
       \E out \in [1..Len(gens[g].sections) -> AppOutcomes] : GenBatchSettles(g, out, o)
  \/ HandleReset
  \/ \E pos \in 1..MaxPageSections : HandleSectionRegenerate(pos)
  \/ \E k \in DOMAIN regens, o \in AppOutcomes : RegenSettles(k, o)
  \/ \E pos \in 1..MaxPageSections : ReplaceImage(pos)
  \/ \E from \in 1..MaxPageSections, to \in 1..MaxPageSections : SectionReorder(from, to)
  \/ HandleUndo
  \/ HandleRedo
  \/ SaveToHistory
  \/ OpenHistory
  \/ CloseHistory
  \/ \E k \in DOMAIN history : LoadFromHistory(k)
  \/ OpenSettings
  \/ SettingsSave
  \/ SettingsClear
  \/ SettingsClose
  \/ \E t \in DOMAIN timers : TimerFires(t)

Spec == Init /\ [][Next]_vars

(***************************************************************************)
(* SpecUndo: the App component with items saved earlier (the mount effect  *)
(* reads them from localStorage 'detailpage_history') and with the undo    *)
(* stack that loading the oldest item and resetting has built              *)
(***************************************************************************)
\* the k-th item saveToHistory stored
SavedItem(k) ==
  [id |-> k,
   productData |-> CHOOSE d \in AppInputs : TRUE,
   generatedPage |->
     PageOf(<<[PlannedSection([logicType |-> "hook", order |-> 1], 1)
                 EXCEPT !.imageUrl = RemoteImage(k)]>>, NoThumbnail)]

\* [newItem, ...prev]: the newest item first
SavedHistory == [i \in 1..MaxSaved |-> SavedItem(MaxSaved - i + 1)]

\* the state loadFromHistory sets
LoadedState(item) ==
  AppStateOf("preview", item.productData, item.id, item.generatedPage)

\* the undo stack after k loads of the oldest item, a reset after each
StackOf(k) == [i \in 1..k |-> LoadedState(SavedItem(1))]
StackSizes == {0, 1}

MountedWith(sizes) ==
  /\ storedKey = "key"
  /\ productData = EmptyProductData
  /\ PlanIdle
  /\ BatchIdle
  /\ step = "input"
  /\ generatedImages = 0
  /\ generatedPage = NoPage
  /\ \E k \in sizes :
       /\ stateHistory = StackOf(k)
       /\ currentHistoryIndex = k - 1
  /\ isUndoRedoAction = FALSE
  /\ history = SavedHistory
  /\ showHistory = FALSE
  /\ showSettings = FALSE
  /\ pending = NoPending
  /\ timers = <<>>
  /\ gens = <<>>
  /\ attempts = 0
  /\ regens = <<>>
  /\ imgSeq = 0
  /\ loads = 0
  /\ lastEvent = NoEvent
  /\ PreviewIdle
  /\ UploadIdle

InitUndo == MountedWith(StackSizes)

NextUndo ==
  \/ \E d \in AppInputs : HandleInputSubmit(d)
  \/ \E g \in DOMAIN gens, resp \in AppResponses : GenPlanSettles(g, resp)
  \/ \E g \in DOMAIN gens, o \in AppOutcomes :
       \E out \in [1..Len(gens[g].sections) -> AppOutcomes] : GenBatchSettles(g, out, o)
  \/ HandleReset
  \/ HandleUndo
  \/ HandleRedo
  \/ OpenHistory
  \/ CloseHistory
  \/ \E k \in DOMAIN history : LoadFromHistory(k)

SpecUndo == InitUndo /\ [][NextUndo]_vars

(***************************************************************************)
(* SpecCap: the same App with an undo stack at the cap of 50 snapshots,    *)
(* loading, resetting, undoing and redoing                                 *)
(***************************************************************************)
CapSizes == {HistoryCap - 1, HistoryCap}

InitCap == MountedWith(CapSizes)

NextCap ==
  \/ HandleReset
  \/ HandleUndo
  \/ HandleRedo
  \/ OpenHistory
  \/ CloseHistory
  \/ \E k \in DOMAIN history : LoadFromHistory(k)

SpecCap == InitCap /\ [][NextCap]_vars

(***************************************************************************)
(* SpecPreview: the handlers of DetailPagePreview on a page in preview     *)
(***************************************************************************)
PreviewFresh ==
  /\ ctlPrompt = FreshPrompts
  /\ hiddenSections = {}
  /\ exported = NoExport
  /\ clicks = 0
appRest == <<storedKey, serviceVars, history, showHistory, showSettings, pending,
             timers, gens, attempts, regens, imgSeq, loads>>

\* the onToggle of a SectionCheckbox
ToggleSection(sectionId) ==
  /\ PreviewShown
  /\ hiddenSections' = toggleSection(hiddenSections, sectionId)
  /\ ctlScale' = Remounted(ctlScale,
                           ControlAt(generatedPage.sections, hiddenSections),
                           ControlAt(generatedPage.sections, hiddenSections'))
  /\ ctlPrompt' = RemountedPrompt(ctlPrompt,
                           ControlAt(generatedPage.sections, hiddenSections),
                           ControlAt(generatedPage.sections, hiddenSections'))
  /\ lastEvent' = Ev("toggle", 0, sectionId, NoImage, 0, None, None)
  /\ exported' = NoExport
  /\ UNCHANGED <<appRest, renderVars, imageScales, clicks>>

HandleDownloadFullPage(ok) ==
  /\ PreviewShown
  /\ exported' = RasterOf(generatedPage.sections, hiddenSections, ok)
  /\ lastEvent' = Ev("export", 0, "jpg", NoImage, 0, None, None)
  /\ UNCHANGED <<appRest, renderVars, hiddenSections, imageScales, ctlScale,
                 ctlPrompt, clicks>>

HandleDownloadZip(failed) ==
  /\ PreviewShown
  /\ exported' = ZipOf(generatedPage.sections, hiddenSections, failed)
  /\ lastEvent' = Ev("export", 0, "zip", NoImage, 0, None, None)
  /\ UNCHANGED <<appRest, renderVars, hiddenSections, imageScales, ctlScale,
                 ctlPrompt, clicks>>

HandleCopyHTML(ok) ==
  /\ PreviewShown
  /\ exported' = MarkupOf(generatedPage.sections, hiddenSections, ok)
  /\ lastEvent' = Ev("export", 0, "html", NoImage, 0, None, None)
  /\ UNCHANGED <<appRest, renderVars, hiddenSections, imageScales, ctlScale,
                 ctlPrompt, clicks>>

\* the images a section of a finished page can hold: none, a remote URL, an
\* inline data: URL
ImageKinds(i) == {NoImage, RemoteImage(i), InlineImage(i)}

\* a page of n sections with the images imgs
PreviewPage(n, imgs) ==
  PageOf([i \in 1..n |->
            [PlannedSection([logicType |-> SALES_LOGIC_FRAMEWORK[5][i], order |-> i], i)
               EXCEPT !.imageUrl = imgs[i]]],
         NoThumbnail)

PreviewPages ==
  UNION {{PreviewPage(n, imgs) : imgs \in {f \in [1..n -> UNION {ImageKinds(i) : i \in 1..n}] :
                                              \A i \in 1..n : f[i] \in ImageKinds(i)}} :
         n \in 0..MaxSections}

\* the App after a generation that ended in the preview step
PreviewOf(pages) ==
  /\ storedKey = "key"
  /\ productData \in AppInputs
  /\ PlanIdle
  /\ BatchIdle
  /\ step = "preview"
  /\ generatedImages = 0
  /\ generatedPage \in pages
  /\ stateHistory = <<>>
  /\ currentHistoryIndex = -1
  /\ isUndoRedoAction = FALSE
  /\ history = <<>>
  /\ showHistory = FALSE
  /\ showSettings = FALSE
  /\ pending = NoPending
  /\ timers = <<>>
  /\ gens = <<>>
  /\ attempts = 1
  /\ regens = <<>>
  /\ imgSeq = 0
  /\ loads = 0
  /\ lastEvent = NoEvent
  /\ PreviewFresh
  /\ UploadIdle

InitPreview ==
  /\ PreviewOf(PreviewPages)
  /\ imageScales = NoScales
  /\ ctlScale = FreshControls

\* the checkboxes toggled in SpecPreview
ToggledSlots == {"header", "hero", "features", "usage"}

NextPreview ==
  \/ \E x \in ToggledSlots : ToggleSection(x)
  \/ \E ok \in BOOLEAN : HandleDownloadFullPage(ok)
  \/ \E failed \in SUBSET (1..MaxSections) : HandleDownloadZip(failed)
  \/ \E ok \in BOOLEAN : HandleCopyHTML(ok)
  \/ \E from \in 1..MaxSections, to \in 1..MaxSections : SectionReorder(from, to)

SpecPreview == InitPreview /\ [][NextPreview]_vars

(***************************************************************************)
(* SpecScale: the scale buttons, reorders and regenerations on a page of   *)
(* MaxPageSections sections that all have an image                         *)
(***************************************************************************)
ScaleDown(imageScale) == IF imageScale - 10 > 50 THEN imageScale - 10 ELSE 50
ScaleUpUnbounded(imageScale) == imageScale + 10
ScaleUp(imageScale) == Min(150, imageScale + 10)

\* a click on the - (up = FALSE) or + button of the control instance k:
\* setImageScale(ns); onScaleChange(section.id, ns) -> handleScaleChange
ScaleClick(k, up) ==
  /\ PreviewShown
  /\ ControlAt(generatedPage.sections, hiddenSections)[k] # "none"
  /\ clicks < MaxScaleClicks
  /\ LET sec == IF k = 0 THEN generatedPage.sections[1]
                 ELSE generatedPage.sections[PosOf(generatedPage.sections, k)]
         ns == IF up THEN ScaleUp(ctlScale[k]) ELSE ScaleDown(ctlScale[k])
     IN /\ ctlScale' = [ctlScale EXCEPT ![k] = ns]
        /\ imageScales' = [imageScales EXCEPT ![sec.id] = ns]
        /\ lastEvent' = Ev("scale", sec.id, None, NoImage, 0, None, None)
  /\ clicks' = clicks + 1
  /\ exported' = NoExport
  /\ UNCHANGED <<appRest, renderVars, hiddenSections, ctlPrompt>>

ScalePages ==
  {PreviewPage(MaxPageSections, [i \in 1..MaxPageSections |-> RemoteImage(i)])}

\* the scale the first control has been brought to by earlier clicks
ScaleStarts == {60, 100, 140}

InitScale ==
  \E s \in ScaleStarts :
    /\ PreviewOf(ScalePages)
    /\ ctlScale = [FreshControls EXCEPT ![0] = s]
    /\ imageScales = [NoScales EXCEPT ![1] = IF s = 100 THEN 0 ELSE s]

NextScale ==
  \/ \E k \in ControlKeys, up \in BOOLEAN : ScaleClick(k, up)
  \/ \E from \in 1..MaxPageSections, to \in 1..MaxPageSections :
       SectionReorder(from, to)
  \/ \E pos \in 1..MaxPageSections : HandleSectionRegenerate(pos)
  \/ \E k \in DOMAIN regens, o \in AppOutcomes : RegenSettles(k, o)

SpecScale == InitScale /\ [][NextScale]_vars

(***************************************************************************)
(* SpecDefer: a submission made without a stored key                       *)
(***************************************************************************)
NextDefer ==
  \/ \E d \in AppInputs : HandleInputSubmit(d)
  \/ OpenSettings
  \/ SettingsSave
  \/ SettingsClear
  \/ CloseWithin(MaxDeferred)
  \/ \E t \in DOMAIN timers : TimerWithin(t, MaxDeferred)
  \/ \E g \in DOMAIN gens, resp \in AppResponses : GenPlanSettles(g, resp)
  \/ \E g \in DOMAIN gens, o \in AppOutcomes :
       \E out \in [1..Len(gens[g].sections) -> AppOutcomes] : GenBatchSettles(g, out, o)
  \/ HandleReset

SpecDefer == Init /\ [][NextDefer]_vars

(***************************************************************************)
(* SpecRegen: the prompt editor and overlapping regenerations              *)
(***************************************************************************)
InitRegen ==
  /\ PreviewOf(ScalePages)
  /\ imageScales = NoScales
  /\ ctlScale = FreshControls

\* the user opens the prompt editor of a control and types a new prompt:
\* setIsEditingPrompt(true), setEditablePrompt(e.target.value)
EditPrompt(k) ==
  /\ PreviewShown
  /\ ControlAt(generatedPage.sections, hiddenSections)[k] # "none"
  /\ ctlPrompt[k] # "edited"
  /\ ctlPrompt' = [ctlPrompt EXCEPT ![k] = "edited"]
  /\ lastEvent' = Ev("editPrompt", k, None, NoImage, 0, None, None)
  /\ exported' = NoExport
  /\ UNCHANGED <<appRest, renderVars, hiddenSections, imageScales, ctlScale, clicks>>

NextRegen ==
  \/ \E k \in ControlKeys : EditPrompt(k)
  \/ \E pos \in 1..MaxPageSections : RegenerateWithin(pos, MaxInFlight, MaxRegenImages)
  \/ \E k \in DOMAIN regens, o \in AppOutcomes : RegenSettles(k, o)
  \/ \E pos \in 1..MaxPageSections : ReplaceWithin(pos, MaxRegenImages)
  \/ \E from \in 1..MaxPageSections, to \in 1..MaxPageSections :
       SectionReorder(from, to)
  \/ HandleReset

SpecRegen == InitRegen /\ [][NextRegen]_vars

\* every image request settles: the fetch of generateImageWithAPIYI is
\* aborted after 90 seconds, so regenerateSection cannot stay pending
SpecRegenLive ==
  SpecRegen /\ WF_vars(\E k \in 1..MaxInFlight, o \in AppOutcomes : RegenSettles(k, o))

(***************************************************************************)
(* SpecUpload: one call of uploadToCloudinary, made directly or by         *)
(* generateImageWithAPIYI with the image it has just generated             *)
(***************************************************************************)
\* the images passed in: remote URLs, inline images, the SVG placeholder
UploadInputs ==
  {RemoteImage(k) : k \in 1..MaxSections} \cup {InlineImage(k) : k \in 1..MaxSections}
  \cup {getFallbackImage}

InitUpload ==
  /\ storedKey = "key"
  /\ productData = EmptyProductData
  /\ PlanIdle
  /\ BatchIdle
  /\ step = "input"
  /\ generatedImages = 0
  /\ generatedPage = NoPage
  /\ stateHistory = <<>>
  /\ currentHistoryIndex = -1
  /\ isUndoRedoAction = FALSE
  /\ history = <<>>
  /\ showHistory = FALSE
  /\ showSettings = FALSE
  /\ pending = NoPending
  /\ timers = <<>>
  /\ gens = <<>>
  /\ attempts = 0
  /\ regens = <<>>
  /\ imgSeq = 0
  /\ loads = 0
  /\ lastEvent = NoEvent
  /\ PreviewIdle
  /\ refImages = <<>>
  /\ refPc = "idle"
  /\ refParts = <<>>
  /\ styleCalls = <<>>
  /\ upInput \in UploadInputs
  /\ upFolder \in UploadFolders
  /\ upAnswer \in UploadAnswers
  /\ upPc = "idle"
  /\ upResult = UploadPending

\* uploadToCloudinary(base64Image, folder) settles
UploadCall ==
  /\ upPc = "idle"
  /\ upResult' = uploadToCloudinary(upInput, upFolder, upAnswer)
  /\ upPc' = "uploaded"
  /\ UNCHANGED <<planVars, batchVars, appVars, upInput, upFolder, upAnswer,
                 refVars, styleCalls>>

\* generateImageWithAPIYI has an image in inlineData and returns
PersistCall ==
  /\ upPc = "idle"
  /\ upInput.kind = "inline"
  /\ upFolder = "generated-images"
  /\ upResult' = Uploaded(Fulfilled(Persist(upInput, upAnswer)),
                          uploadToCloudinary(upInput, upFolder, upAnswer).requests)
  /\ upPc' = "persisted"
  /\ UNCHANGED <<planVars, batchVars, appVars, upInput, upFolder, upAnswer,
                 refVars, styleCalls>>

NextUpload ==
  \/ UploadCall
  \/ PersistCall

SpecUpload == InitUpload /\ [][NextUpload]_vars

(***************************************************************************)
(* SpecRefs: the reference images attached to an image request             *)
(***************************************************************************)
\* a product photo is a remote URL, a data:image/<type>;base64 URL, or a
\* data: URL of any other shape
RefKinds == {"url", "inline", "malformed"}

\* the lists of product photos; n tells the photos of a list apart
RefInputs ==
  UNION {{[i \in 1..n |-> [kind |-> f[i], n |-> i]] : f \in [1..n -> RefKinds]} :
           n \in 0..MaxRefs}

\* img.startsWith('data:')
startsWithData(img) == img.kind # "url"

\* ensureSupportedImage: throws unless the data URL has the image shape
ensureSupportedImage(img) ==
  IF startsWithData(img) /\ img.kind = "inline"
    THEN [status |-> "ok", data |-> img]
    ELSE [status |-> "threw", data |-> img]

RequestBuilt(parts) == [status |-> "built", parts |-> parts]
RequestThrew == [status |-> "threw", parts |-> <<>>]

\* the loop of generateImageWithAPIYI over the first
\* Math.min(referenceImages.length, 3) reference images, from index i
RECURSIVE AttachFrom(_, _, _)
AttachFrom(referenceImages, i, parts) ==
  IF i > Min(Len(referenceImages), 3)
    THEN RequestBuilt(parts)
    ELSE IF ~startsWithData(referenceImages[i])
      THEN AttachFrom(referenceImages, i + 1, parts)
      ELSE IF ensureSupportedImage(referenceImages[i]).status = "threw"
        THEN RequestThrew
        ELSE AttachFrom(referenceImages, i + 1,
                        Append(parts, ensureSupportedImage(referenceImages[i]).data))

\* the parts generateImageWithAPIYI puts before the text prompt
RequestParts(key, referenceImages) ==
  IF key # "key" THEN RequestThrew ELSE AttachFrom(referenceImages, 1, <<>>)

\* the referenceImages generateSectionImage and generateThumbnail pass on:
\* productData.images[0] when it starts with 'data:'
MainReference(images) ==
  IF Len(images) > 0 /\ startsWithData(images[1]) THEN <<images[1]>> ELSE <<>>

InitRefs ==
  /\ storedKey = "key"
  /\ productData = EmptyProductData
  /\ PlanIdle
  /\ BatchIdle
  /\ step = "input"
  /\ generatedImages = 0
  /\ generatedPage = NoPage
  /\ stateHistory = <<>>
  /\ currentHistoryIndex = -1
  /\ isUndoRedoAction = FALSE
  /\ history = <<>>
  /\ showHistory = FALSE
  /\ showSettings = FALSE
  /\ pending = NoPending
  /\ timers = <<>>
  /\ gens = <<>>
  /\ attempts = 0
  /\ regens = <<>>
  /\ imgSeq = 0
  /\ loads = 0
  /\ lastEvent = NoEvent
  /\ PreviewIdle
  /\ upInput = NoImage
  /\ upFolder = "ai-detail-page"
  /\ upAnswer = "ok"
  /\ upPc = "idle"
  /\ upResult = UploadPending
  /\ styleCalls = <<>>
  /\ refImages \in RefInputs
  /\ refPc = "idle"
  /\ refParts = <<>>

\* generateSectionImage builds its request
SectionRequest ==
  /\ refPc = "idle"
  /\ refParts' = RequestParts(storedKey, MainReference(refImages)).parts
  /\ refPc' = IF RequestParts(storedKey, MainReference(refImages)).status = "built"
                THEN "section" ELSE "threw"
  /\ UNCHANGED <<planVars, batchVars, appVars, upInput, upFolder, upAnswer, upPc,
                 upResult, refImages, styleCalls>>

\* generateThumbnail builds its request
ThumbnailRequest ==
  /\ refPc = "idle"
  /\ refParts' = RequestParts(storedKey, MainReference(refImages)).parts
  /\ refPc' = IF RequestParts(storedKey, MainReference(refImages)).status = "built"
                THEN "thumbnail" ELSE "threw"
  /\ UNCHANGED <<planVars, batchVars, appVars, upInput, upFolder, upAnswer, upPc,
                 upResult, refImages, styleCalls>>

NextRefs ==
  \/ SectionRequest
  \/ ThumbnailRequest

SpecRefs == InitRefs /\ [][NextRefs]_vars

(***************************************************************************)
(* SpecStyle: getTextStyle                                                 *)
(***************************************************************************)
Style(mainSize, mainWeight, alignment, verticalPosition, showBadge, badgeText) ==
  [mainSize |-> mainSize, mainWeight |-> mainWeight, alignment |-> alignment,
   verticalPosition |-> verticalPosition, showBadge |-> showBadge,
   badgeText |-> badgeText]

\* the table, with the fields that tell its eight descriptors apart
LOGIC_TYPE_STYLES ==
  [hook |-> Style("text-3xl md:text-5xl lg:text-6xl", "font-black", "center", "center", FALSE, ""),
   solution |-> Style("text-2xl md:text-4xl", "font-bold", "center", "center", TRUE, "SOLUTION"),
   clarity |-> Style("text-lg md:text-2xl", "font-semibold", "left", "bottom", TRUE, "SPEC"),
   socialProof |-> Style("text-xl md:text-3xl", "font-light", "center", "bottom", FALSE, ""),
   service |-> Style("text-xl md:text-3xl", "font-bold", "center", "top", TRUE, "HOW TO"),
   riskReversal |-> Style("text-xl md:text-2xl", "font-semibold", "center", "bottom", TRUE, "GUARANTEE"),
   brandStory |-> Style("text-2xl md:text-4xl", "font-light", "center", "center", FALSE, ""),
   comparison |-> Style("text-xl md:text-3xl", "font-bold", "left", "center", TRUE, "VS")]

\* LOGIC_TYPE_STYLES is an object literal: besides its own eight keys, a
\* property read finds what every object inherits from Object.prototype
InheritedNames == {"constructor", "toString", "hasOwnProperty"}

\* the role strings passed in: the eight keys, unknown ones, inherited names
RoleStrings == DOMAIN LOGIC_TYPE_STYLES \cup {"unknown-role", ""} \cup InheritedNames

Descriptor(style) == [kind |-> "descriptor", style |-> style]
\* a member of Object.prototype: no TextStyleConfig, every field undefined
InheritedMember == [kind |-> "inherited", style |-> Style("", "", "", "", FALSE, "")]
Undefined == [kind |-> "undefined", style |-> Style("", "", "", "", FALSE, "")]

\* LOGIC_TYPE_STYLES[logicType]
StyleLookup(logicType) ==
  IF logicType \in DOMAIN LOGIC_TYPE_STYLES THEN Descriptor(LOGIC_TYPE_STYLES[logicType])
  ELSE IF logicType \in InheritedNames THEN InheritedMember
  ELSE Undefined

\* LOGIC_TYPE_STYLES[logicType] || LOGIC_TYPE_STYLES['solution']
getTextStyle(logicType) ==
  IF StyleLookup(logicType).kind # "undefined"
    THEN StyleLookup(logicType)
    ELSE StyleLookup("solution")

InitStyle ==
  /\ storedKey = "key"
  /\ productData = EmptyProductData
  /\ PlanIdle
  /\ BatchIdle
  /\ AppIdle

\* a render calls getTextStyle(section.logicType)
StyleCall(logicType) ==
  /\ Len(styleCalls) < MaxStyleCalls
  /\ styleCalls' = Append(styleCalls, [logicType |-> logicType,
                                       returned |-> getTextStyle(logicType)])
  /\ UNCHANGED <<planVars, batchVars, appVars, upInput, upFolder, upAnswer, upPc,
                 upResult, refVars>>

NextStyle == \E logicType \in RoleStrings : StyleCall(logicType)

SpecStyle == InitStyle /\ [][NextStyle]_vars

\* @@CLAIMS@@
(***************************************************************************)
(* Properties                                                              *)
(***************************************************************************)
BatchReturned == bPc \in {"fulfilled", "rejected"}
OutcomesSeen == {bArrival[k].outcome : k \in 1..Len(bArrival)}
                \cup (IF bThumb.state = "settled" THEN {bThumb.outcome} ELSE {})

\* C1: if any image request of generateFullDetailPage (a section's or the
\* thumbnail's) fails with CREDITS_INSUFFICIENT, the call as a whole rejects
\* with CREDITS_INSUFFICIENT, however many other requests succeeded.
C1_QuotaRejectsBatch ==
  (BatchReturned /\ "quota" \in OutcomesSeen)
    => (bResult.status = "rejected" /\ bResult.error = "CREDITS_INSUFFICIENT")

\* C2: when section requests fail for an ordinary reason (error, timeout),
\* generateFullDetailPage does not reject; it resolves with exactly the N
\* planned sections, each with isGenerating = FALSE, a failed one with the
\* placeholder or no image, a successful one with its own generated image,
\* whatever happened to the other requests.
C2_OrdinaryFailuresIsolated ==
  /\ (bPc = "rejected" /\ bIssued # {}) => "quota" \in OutcomesSeen
  /\ bPc = "fulfilled" =>
       /\ Len(bResult.page.sections) = Len(bSections)
       /\ SettledReqs(bArrival) = 1..Len(bSections)
       /\ \A k \in 1..Len(bArrival) :
            LET i == bArrival[k].req
                s == bResult.page.sections[i]
            IN /\ s.isGenerating = FALSE
               /\ bArrival[k].outcome \in OrdinaryFailures
                    => s.imageUrl \in {getFallbackImage, NoImage}
               /\ bArrival[k].outcome = "url" => s.imageUrl = RemoteImage(i)
               /\ bArrival[k].outcome = "inline" => s.imageUrl = InlineImage(i)

C2_Witness ==
  /\ bPc = "fulfilled"
  /\ Len(bSections) >= 2
  /\ \E k \in 1..Len(bArrival) : bArrival[k].outcome \in OrdinaryFailures
  /\ \E k \in 1..Len(bArrival) : bArrival[k].outcome \in Successes

\* C5: planDetailPage fails as a whole (no sections) whenever the answer is
\* unparsable or its section list differs from the resolved role sequence in
\* length or in the role at some position.
C5_PlanRejectsMismatch ==
  (/\ planResult.status # "pending"
   /\ \/ planResponse.kind # "ok"
      \/ LogicTypesOf(planResponse.sections) # logicSequence(productData))
    => (planResult.status = "rejected" /\ planResult.sections = <<>>)

\* C6: every plan returned by planDetailPage has exactly L sections, L the
\* resolved page length, and the logicType of its i-th section is the i-th
\* entry of the role template of L.
C6_PlanFollowsTemplate ==
  planResult.status = "fulfilled" =>
    /\ Len(planResult.sections) = planPrompt.targetLength
    /\ \A i \in 1..Len(planResult.sections) :
         /\ i <= Len(planPrompt.logicSequence)
         /\ planResult.sections[i].logicType = planPrompt.logicSequence[i]

\* C7: the page length is a function of (pageLength, price, category): an
\* explicit 5, 7 or 9 is used as is; for 'auto' it is 9 when price > 100000 or
\* the category is beauty or digital/IT, else 7 when price > 30000, else 5;
\* the comparisons are strict (100000 gives 7, 30000 gives 5).
C7_PageLengthResolution ==
  planPrompt.sent =>
    LET pd == productData
        special == pd.category = "beauty" \/ pd.category = "digitalIT"
        len == planPrompt.targetLength
    IN /\ pd.pageLength = "5" => len = 5
       /\ pd.pageLength = "7" => len = 7
       /\ pd.pageLength = "9" => len = 9
       /\ pd.pageLength = "auto" =>
            /\ (pd.price > 100000 \/ special) => len = 9
            /\ (pd.price <= 100000 /\ ~special /\ pd.price > 30000) => len = 7
            /\ (pd.price <= 30000 /\ ~special) => len = 5
            /\ (pd.price = 100000 /\ ~special) => len = 7
            /\ (pd.price = 30000 /\ ~special) => len = 5
       /\ planPrompt.logicSequence = SALES_LOGIC_FRAMEWORK[len]

C7_Witness ==
  /\ planPrompt.sent
  /\ productData.pageLength = "auto"
  /\ productData.price = 100000
  /\ productData.category = "fashion"
  /\ planPrompt.targetLength = 7

\* C8: the sections of the page returned by generateFullDetailPage are in
\* planning order (position i holds the i-th planned section, same id),
\* whatever the order in which the image requests completed.
C8_SectionsInPlanningOrder ==
  bPc = "fulfilled" =>
    /\ Len(bResult.page.sections) = Len(bSections)
    /\ \A i \in 1..Len(bSections) :
         /\ bResult.page.sections[i].id = bSections[i].id
         /\ bResult.page.sections[i].logicType = bSections[i].logicType
         /\ bResult.page.sections[i].order = bSections[i].order

C8_Witness ==
  /\ bPc = "fulfilled"
  /\ Len(bArrival) = MaxSections
  /\ \A k \in 1..(Len(bArrival) - 1) : bArrival[k].req > bArrival[k + 1].req

\* C9: when a thumbnail is requested and its generation fails for an ordinary
\* reason, the returned page has no thumbnail and still has all sections.
C9_FailedThumbnailAbsent ==
  (bPc = "fulfilled" /\ bThumb.state = "settled"
     /\ bThumb.outcome \in OrdinaryFailures)
    => /\ ~bResult.page.thumbnail.present
       /\ Len(bResult.page.sections) = Len(bSections)


\* what undo and redo compare: the ids, orders and images of a section list
SectionList(pg) ==
  [i \in 1..Len(pg.sections) |->
     [id |-> pg.sections[i].id, order |-> pg.sections[i].order,
      imageUrl |-> pg.sections[i].imageUrl]]

\* C3: when a regenerate of a section that has an image fails, whatever the
\* failure of the image request, the section's isGenerating flag is cleared
\* and its imageUrl is exactly the image it had before the regenerate
\* started: the image is neither lost nor replaced by the placeholder.
C3_FailedRegenerateKeepsImage ==
  [][(/\ lastEvent'.op = "regenSettled"
      /\ lastEvent'.outcome \notin Successes
      /\ lastEvent'.img # NoImage
      /\ \E i \in 1..Len(generatedPage.sections) :
           /\ generatedPage.sections[i].id = lastEvent'.id
           /\ generatedPage.sections[i].imageUrl = lastEvent'.img)
     => \A i \in 1..Len(generatedPage'.sections) :
          generatedPage'.sections[i].id = lastEvent'.id
            => /\ generatedPage'.sections[i].isGenerating = FALSE
               /\ generatedPage'.sections[i].imageUrl = lastEvent'.img]_vars

\* C4: in the preview step, after one edit that changes the page's images or
\* section order (replace, regenerate, reorder) a snapshot has been pushed:
\* undo is enabled and restores the section list as it was before the edit,
\* and a redo after it restores the edited list.
EditStep ==
  /\ lastEvent'.op \in {"replace", "reorder", "regenSettled"}
  /\ step = "preview"
  /\ step' = "preview"
  /\ generatedPage.exists
  /\ SectionList(generatedPage') # SectionList(generatedPage)
C4_EditPushesSnapshot ==
  [][EditStep =>
       /\ currentHistoryIndex' > 0
       /\ currentHistoryIndex' < Len(stateHistory')
       /\ SectionList(stateHistory'[currentHistoryIndex'].generatedPage)
            = SectionList(generatedPage)
       /\ SectionList(stateHistory'[currentHistoryIndex' + 1].generatedPage)
            = SectionList(generatedPage')]_vars

\* C10: if planning fails (the call errors or the answer has no parsable
\* structure), no image request is issued for that attempt, no sections are
\* created, and the App is at the input step.
C10_PlanFailureAborts ==
  [][(lastEvent'.op = "planSettled" /\ lastEvent'.outcome \in PlanFailKinds)
     => /\ lastEvent'.issued = 0
        /\ \E g \in 1..Len(gens) :
             /\ gens[g].phase = "planning"
             /\ gens' = RemoveAt(gens, g)
        /\ generatedPage' = generatedPage
        /\ step' = "input"]_vars

C10_Witness ==
  /\ lastEvent.op = "planSettled"
  /\ lastEvent.outcome \in {"noJson", "badJson", "noSections"}
  /\ attempts > 0
  /\ gens = <<>>
  /\ step = "input"
  /\ generatedPage = NoPage


\* C11: while the stored key is absent or blank no operation (submit and
\* plan, section and thumbnail generation, regenerate) sends a request to
\* the generation service, and the operation ends as a failure reported to
\* its caller (or in the settings prompt), never as a silent completion.
C11_MissingKeyFailsFast ==
  /\ \A g \in 1..Len(gens) :
       gens[g].phase = "planning" => HasApiKey(gens[g].key)
  /\ (/\ lastEvent.op \in {"planSettled", "generated", "regenSettled"}
      /\ lastEvent.op = "generated" => lastEvent.id > 0
      /\ ~HasApiKey(lastEvent.key))
       => (lastEvent.issued = 0 /\ lastEvent.status = "rejected")

UndoRedoStep == lastEvent'.op \in {"undo", "redo"}

\* a render after which the auto-snapshot effect has a new preview state to
\* record: the image list changed and the preview is shown with images
PushDue ==
  /\ step' = "preview"
  /\ generatedImages' # 0
  /\ DepsChanged(generatedImages', generatedImages)

\* C14: undo and redo never push a snapshot (they only move the index by one
\* over an unchanged stack), and the one-shot isUndoRedoAction flag does not
\* swallow a later snapshot: a step that is not an undo or redo and brings a
\* new preview state leaves that state on top of the stack, the index on it.
C14_UndoRedoPushNothing ==
  [][/\ UndoRedoStep =>
          /\ stateHistory' = stateHistory
          /\ currentHistoryIndex' \in {currentHistoryIndex - 1, currentHistoryIndex,
                                       currentHistoryIndex + 1}
     /\ (~UndoRedoStep /\ PushDue) =>
          /\ stateHistory' # <<>>
          /\ stateHistory'[Len(stateHistory')] = CurrentState'
          /\ currentHistoryIndex' = Len(stateHistory') - 1]_vars

HistoryBounded ==
  /\ Len(stateHistory) <= HistoryCap
  /\ currentHistoryIndex >= -1
  /\ currentHistoryIndex <= Len(stateHistory) - 1

\* C15: the undo stack never holds more than 50 snapshots, the index stays
\* between -1 and the stack's length minus one, undo at the oldest snapshot
\* and redo at the newest change nothing.
C15_HistoryBounded ==
  [][/\ HistoryBounded
     /\ HistoryBounded'
     /\ (lastEvent'.op = "undo" /\ currentHistoryIndex <= 0)
          => UNCHANGED renderVars
     /\ (lastEvent'.op = "redo" /\ currentHistoryIndex >= Len(stateHistory) - 1)
          => UNCHANGED renderVars]_vars

\* a stack of 50 has taken two more snapshots, dropping the oldest, and redo
\* has been pressed at the newest snapshot (a redo that moved the index
\* between these two snapshots would have left the flag set)
C15_Witness ==
  /\ Len(stateHistory) = HistoryCap
  /\ stateHistory[HistoryCap - 1].generatedImages = MaxSaved
  /\ stateHistory[HistoryCap].generatedImages = MaxSaved
  /\ currentHistoryIndex = HistoryCap - 1
  /\ lastEvent.op = "redo"
  /\ ~isUndoRedoAction

\* the section at position i is hidden: the block that shows it is unchecked
HiddenAt(i) == layoutId(i, Len(generatedPage.sections)) \in hiddenSections
HasImageAt(i) == generatedPage.sections[i].imageUrl # NoImage
ExportedAt == {it.pos : it \in exported.items}
ExportStep == lastEvent.op = "export"

\* whether the export that just ran could deliver the image at position i
Delivered(i) ==
  CASE exported.kind = "jpg" -> exported.ok
    [] exported.kind = "zip" -> i \notin exported.failed
    [] exported.kind = "html" ->
         exported.ok /\ ~IsDataUrl(generatedPage.sections[i].imageUrl)
    [] OTHER -> FALSE

\* C12 as stated: a hidden section is in none of the three exports (raster,
\* zip, markup), and every section that is not hidden and has an image is
\* in each of them.
C12_HiddenOutOthersIn ==
  ExportStep =>
    \A i \in 1..Len(generatedPage.sections) :
      /\ HiddenAt(i) => i \notin ExportedAt
      /\ (~HiddenAt(i) /\ HasImageAt(i)) => i \in ExportedAt

\* C12, amended: a hidden section is in none of the three exports; a section
\* that is not hidden and has an image is in the raster when the capture
\* succeeded, in the zip exactly when its fetch succeeded, and in the markup
\* exactly when its image is a remote URL and the clipboard write succeeded;
\* every exported image is the image of the section it stands for.
C12_HiddenOutOthersWhenDelivered ==
  ExportStep =>
    /\ \A i \in 1..Len(generatedPage.sections) :
         /\ HiddenAt(i) => i \notin ExportedAt
         /\ (~HiddenAt(i) /\ HasImageAt(i)) => (i \in ExportedAt <=> Delivered(i))
         /\ ~HasImageAt(i) => i \notin ExportedAt
    /\ \A it \in exported.items :
         /\ it.pos \in 1..Len(generatedPage.sections)
         /\ it.src = generatedPage.sections[it.pos].imageUrl
         /\ it.id = generatedPage.sections[it.pos].id

\* a zip was made of a page of three sections with images, the middle block
\* hidden: the first and the last section are in the archive
C12_Witness ==
  /\ ExportStep
  /\ exported.kind = "zip"
  /\ Len(generatedPage.sections) = 3
  /\ \A i \in 1..3 : HasImageAt(i)
  /\ hiddenSections = {"features"}
  /\ ExportedAt = {1, 3}

\* C13: a reorder with both indices in range is a stable move: the moved
\* section ends at position toIndex, the other sections keep their relative
\* order, and the list holds the same sections as before, each once and
\* unaltered.
C13_ReorderStableMove ==
  [][lastEvent'.op = "reorder" =>
       LET old == generatedPage.sections
           new == generatedPage'.sections
           from == lastEvent'.id
           to == lastEvent'.issued
       IN /\ Len(new) = Len(old)
          /\ new[to] = old[from]
          /\ \A a \in 1..Len(old) : \E b \in 1..Len(new) :
               new[b] = old[a] /\ \A c \in 1..Len(new) : new[c] = old[a] => c = b
          /\ \A a \in 1..Len(old), b \in 1..Len(old) :
               (a < b /\ a # from /\ b # from)
                 => PosOf(new, old[a].id) < PosOf(new, old[b].id)]_vars

\* the first of three sections was dropped on the third
C13_Witness ==
  /\ lastEvent.op = "reorder"
  /\ lastEvent.id = 1
  /\ lastEvent.issued = 3
  /\ Len(generatedPage.sections) = 3
  /\ [i \in 1..3 |-> generatedPage.sections[i].id] = <<2, 3, 1>>

\* C16: the copied markup never holds an <img> whose source is an inline
\* (data:) image: no section whose imageUrl is inline, visible or hidden,
\* has an image in the fragment.
C16_MarkupHasNoInlineImage ==
  (ExportStep /\ exported.kind = "html") =>
    /\ \A it \in exported.items : ~IsDataUrl(it.src)
    /\ \A i \in 1..Len(generatedPage.sections) :
         IsDataUrl(generatedPage.sections[i].imageUrl) => i \notin ExportedAt

\* the markup of a page with a visible inline image and a visible remote
\* image was copied: the remote one is in it
C16_Witness ==
  /\ ExportStep
  /\ exported.kind = "html"
  /\ exported.ok
  /\ \E i \in 1..Len(generatedPage.sections) :
       ~HiddenAt(i) /\ generatedPage.sections[i].imageUrl.kind = "inline"
  /\ ExportedAt # {}

\* C17: the zip export never fails because a section's fetch fails: the
\* archive is produced and holds exactly one entry for each section that is
\* visible, has an image and whose fetch succeeded.
C17_ZipSkipsFailedFetch ==
  (ExportStep /\ exported.kind = "zip") =>
    /\ exported.ok
    /\ ExportedAt = {i \in 1..Len(generatedPage.sections) :
                       ~HiddenAt(i) /\ HasImageAt(i) /\ i \notin exported.failed}
    /\ \A it \in exported.items, other \in exported.items :
         it.pos = other.pos => it = other

\* the fetch of the first section failed, the later sections are in the
\* archive
C17_Witness ==
  /\ ExportStep
  /\ exported.kind = "zip"
  /\ hiddenSections = {}
  /\ Len(generatedPage.sections) = 3
  /\ \A i \in 1..3 : HasImageAt(i)
  /\ exported.failed = {1}
  /\ ExportedAt = {2, 3}

\* C18: hiding and un-hiding the same target is a round trip: the toggle
\* applied to the state a toggle produced gives back the hidden set, and so
\* the visible images, of before; a toggle leaves the section list, its
\* order and every image as they were.
C18_ToggleRoundTrip ==
  [][lastEvent'.op = "toggle" =>
       LET x == lastEvent'.outcome
           back == toggleSection(hiddenSections', x)
       IN /\ generatedPage' = generatedPage
          /\ hiddenSections' # hiddenSections
          /\ back = hiddenSections
          /\ RenderedImages(generatedPage'.sections, back)
               = RenderedImages(generatedPage.sections, hiddenSections)]_vars

\* after a reorder of three sections with images, the middle block was
\* hidden and shown again
C18_Witness ==
  /\ lastEvent.op = "toggle"
  /\ lastEvent.outcome = "features"
  /\ hiddenSections = {}
  /\ Len(generatedPage.sections) = 3
  /\ generatedPage.sections[1].id # 1
  /\ RenderedImages(generatedPage.sections, hiddenSections) = {1, 2, 3}

\* C19: whatever the scale buttons, reorders and regenerations do, the scale
\* applied to every section is within [50,150], and a click on a scale
\* button changes no section (image, order or any other stored field).
C19_ScaleBounded ==
  [][/\ \A id \in SectionIds :
          /\ AppliedScale(imageScales, id) \in 50..150
          /\ AppliedScale(imageScales', id) \in 50..150
     /\ lastEvent'.op = "scale" =>
          /\ generatedPage' = generatedPage
          /\ hiddenSections' = hiddenSections
          /\ \A id \in SectionIds :
               id # lastEvent'.id => imageScales'[id] = imageScales[id]]_vars

\* after a reorder and a regeneration, a second click on + left a scale at
\* the upper limit
C19_Witness ==
  /\ lastEvent.op = "scale"
  /\ clicks >= 2
  /\ imgSeq > 0
  /\ generatedPage.sections[1].id # 1
  /\ \E id \in SectionIds : imageScales[id] = 150 /\ ctlScale[0] = 150

\* C20 as stated: uploadToCloudinary returns a remote URL unchanged without
\* uploading, and when the upload of an inline image fails it returns that
\* inline image instead of an error.
C20_UploadNeverFails ==
  upPc = "uploaded" =>
    /\ upInput.kind = "url" =>
         (upResult.status = "fulfilled" /\ upResult.value = upInput
            /\ upResult.requests = 0)
    /\ (upInput.kind = "inline" /\ upAnswer # "ok") =>
         (upResult.status = "fulfilled" /\ upResult.value = upInput)

\* C20, amended: uploadToCloudinary returns a remote URL unchanged without
\* uploading; when the upload of an inline image fails it rejects, and the
\* try/catch of generateImageWithAPIYI around it returns that inline image,
\* so that a generated image is returned either as its remote URL or as
\* itself, never as a failure or a placeholder.
C20_CallerKeepsInlineImage ==
  /\ upPc = "uploaded" =>
       /\ upInput.kind = "url" =>
            (upResult.status = "fulfilled" /\ upResult.value = upInput
               /\ upResult.requests = 0)
       /\ (upInput.kind = "inline" /\ upAnswer # "ok") =>
            (upResult.status = "rejected" /\ upResult.requests = 1)
       /\ (upInput.kind = "inline" /\ upAnswer = "ok") =>
            (upResult.status = "fulfilled" /\ upResult.value = RemoteImage(upInput.n))
  /\ upPc = "persisted" =>
       /\ upResult.status = "fulfilled"
       /\ upResult.value = IF upAnswer = "ok" THEN RemoteImage(upInput.n) ELSE upInput

\* generateImageWithAPIYI returned the inline image after a failed upload
C20_Witness ==
  /\ upPc = "persisted"
  /\ upAnswer = "networkError"
  /\ upResult.requests = 1
  /\ upResult.value = upInput
  /\ IsDataUrl(upResult.value)

\* the data: images of the right shape among the first three of a list
InlineOfFirstThree(images) ==
  SelectSeq(SubSeq(images, 1, Min(Len(images), 3)), LAMBDA img : img.kind = "inline")

\* C21: every section image request attaches exactly the inline (data:)
\* images among the first three product photos of the input: at most three,
\* no remote URL, and every inline one among the first three
C21_AttachesInlineOfFirstThree ==
  refPc = "section" =>
    /\ Len(refParts) <= 3
    /\ \A i \in DOMAIN refParts : refParts[i].kind = "inline"
    /\ refParts = InlineOfFirstThree(refImages)

\* C22: getTextStyle returns, for each of the eight roles, that role's table
\* descriptor, the same on every call; for any other role string it returns
\* the descriptor of 'solution'
C22_StyleResolutionTotal ==
  \A i \in DOMAIN styleCalls :
    /\ styleCalls[i].logicType \in DOMAIN LOGIC_TYPE_STYLES =>
         styleCalls[i].returned = Descriptor(LOGIC_TYPE_STYLES[styleCalls[i].logicType])
    /\ styleCalls[i].logicType \notin DOMAIN LOGIC_TYPE_STYLES =>
         styleCalls[i].returned = Descriptor(LOGIC_TYPE_STYLES["solution"])
    /\ \A j \in DOMAIN styleCalls :
         styleCalls[j].logicType = styleCalls[i].logicType =>
           styleCalls[j].returned = styleCalls[i].returned

\* a step in which a regenerate is triggered
RegenerateStep == Len(regens') = Len(regens) + 1

\* a step in which the user types into a control's prompt editor
EditPromptStep == \E k \in ControlKeys : ctlPrompt[k] # "edited" /\ ctlPrompt'[k] = "edited"

\* C23: when the user has edited a section's visual prompt and triggers
\* regenerate, the section's visualPrompt becomes the edited text and the
\* image request is built from it; editing the prompt without triggering
\* regenerate changes nothing in the page state
C23_EditedPromptRegenerates ==
  [][/\ (RegenerateStep /\ regens'[Len(regens')].typed = "edited") =>
          (/\ regens'[Len(regens')].prompt = "edited"
           /\ \A i \in DOMAIN generatedPage'.sections :
                generatedPage'.sections[i].id = regens'[Len(regens')].id =>
                  generatedPage'.sections[i].visualPrompt = "edited")
     /\ EditPromptStep =>
          (/\ generatedPage' = generatedPage
           /\ regens' = regens
           /\ stateHistory' = stateHistory)]_vars

\* C27: while a section's regenerate request is in flight the UI offers no
\* way to trigger another one for that section, the first section included:
\* at most one regenerate request per section id is in flight
C27_OneRequestPerSection ==
  \A j, k \in DOMAIN regens : regens[j].id = regens[k].id => j = k

\* a regenerate request for the section with this id is in flight
InFlight(id) == \E k \in DOMAIN regens : regens[k].id = id

\* the positions of the section with this id in the current page
PositionsOf(id) ==
  IF generatedPage.exists
    THEN {i \in DOMAIN generatedPage.sections : generatedPage.sections[i].id = id}
    ELSE {}

Generating(id) == \E i \in PositionsOf(id) : generatedPage.sections[i].isGenerating

\* the step in which the request regens[k] completes
SettleStep(k) ==
  /\ k \in DOMAIN regens
  /\ regens' = RemoveAt(regens, k)
  /\ lastEvent'.op = "regenSettled"
  /\ lastEvent'.id = regens[k].id

\* what the completion of regens[k] leaves in a section it was issued for
Completed(sec, k) ==
  [sec EXCEPT !.isGenerating = FALSE,
              !.imageUrl = IF lastEvent'.status = "fulfilled"
                             THEN regenerateSection(regens[k].key, lastEvent'.outcome,
                                                    regens[k].n).value
                             ELSE @]

\* C24: a regenerate sets the section's isGenerating before its request is
\* issued and keeps it true while the request is in flight; as every request
\* settles, the flag is eventually cleared; on success the section's
\* imageUrl is the image returned
C24_FlagCoversRequest ==
  /\ [](\A id \in SectionIds : (InFlight(id) /\ PositionsOf(id) # {}) => Generating(id))
  /\ \A id \in SectionIds : InFlight(id) ~> ~Generating(id)
  /\ [][\A k \in DOMAIN regens :
         (SettleStep(k) /\ lastEvent'.status = "fulfilled" /\ generatedPage.exists) =>
           \A i \in PositionsOf(regens[k].id) :
             generatedPage'.sections[i].imageUrl =
               regenerateSection(regens[k].key, lastEvent'.outcome, regens[k].n).value]_vars

\* C26: the completion of a regenerate request writes only imageUrl and
\* isGenerating of the section with the id it was issued for, found by id in
\* the page current at completion: the other sections, the order of the
\* sections and the thumbnail are as before, whatever was reordered or
\* replaced while the request was in flight; each completion writes its own
\* image, so of two requests for one id the later completion wins
C26_CompletionWritesOwnSection ==
  [][\A k \in DOMAIN regens :
       (SettleStep(k) /\ generatedPage.exists) =>
         /\ generatedPage'.exists
         /\ generatedPage'.thumbnail = generatedPage.thumbnail
         /\ Len(generatedPage'.sections) = Len(generatedPage.sections)
         /\ \A i \in DOMAIN generatedPage.sections :
              generatedPage'.sections[i] =
                IF generatedPage.sections[i].id = regens[k].id
                  THEN Completed(generatedPage.sections[i], k)
                  ELSE generatedPage.sections[i]]_vars

\* a request for section 1 completed with a new image after section 1 was
\* moved to the second position and the other section's image was replaced
\* while the request was in flight
C26_Witness ==
  /\ lastEvent.op = "regenSettled"
  /\ lastEvent.id = 1
  /\ lastEvent.status = "fulfilled"
  /\ generatedPage.exists
  /\ Len(generatedPage.sections) = 2
  /\ generatedPage.sections[2].id = 1
  /\ generatedPage.sections[2].imageUrl = RemoteImage(MaxSections + 1)
  /\ ~generatedPage.sections[2].isGenerating
  /\ generatedPage.sections[1].id = 2
  /\ generatedPage.sections[1].imageUrl = InlineImage(MaxSections + 2)

\* the order values of a section list are pairwise distinct and are the
\* position indices 1..n of the list
OrdersPermute(secs) ==
  /\ \A i, j \in DOMAIN secs : secs[i].order = secs[j].order => i = j
  /\ {secs[i].order : i \in DOMAIN secs} = 1..Len(secs)

\* C25: in every page state, from the plan on and after any reorder, replace,
\* regenerate, undo and redo, the sections' order values are pairwise
\* distinct and form a permutation of the position indices of the list
C25_OrdersArePermutation ==
  /\ planResult.status = "fulfilled" => OrdersPermute(planResult.sections)
  /\ bResult.status = "fulfilled" => OrdersPermute(bResult.page.sections)
  /\ generatedPage.exists => OrdersPermute(generatedPage.sections)

\* a step in which the settings modal's onClose calls executeGenerate: by
\* the close button while the modal is open, or by its timer
DeferredStart ==
  /\ attempts' = attempts + 1
  /\ showSettings \/ Len(timers') < Len(timers)

\* C28: the generation deferred for a missing key is started at most once,
\* however the modal's auto-close timer and a manual close interleave: when
\* onClose starts it, a submission is pending and stops being pending, and
\* a key is stored
C28_DeferredStartsOnce ==
  [][DeferredStart =>
       /\ pending.flag
       /\ ~pending'.flag
       /\ HasApiKey(storedKey)]_vars

\* a step in which executeGenerate's call of generateFullDetailPage settles
GenerationSettles == Len(gens') < Len(gens)

\* C29: no result of a request issued before a reset is applied after it: a
\* page generation that settles moves the application to the preview step
\* only from the processing step it started, and a regenerate that completes
\* writes its image only into the page it was issued on, not into a page
\* generated or loaded since (which has the same section ids)
C29_NoResultAfterReset ==
  [][/\ (GenerationSettles /\ step' = "preview") => step = "processing"
     /\ \A k \in DOMAIN regens :
          (/\ SettleStep(k)
           /\ lastEvent'.status = "fulfilled"
           /\ PositionsOf(regens[k].id) # {}) =>
            regens[k].page = attempts + loads]_vars

\* the section with this id is hidden: the block that shows its position is
\* unchecked, so it is in neither the preview nor the exports
HiddenIn(secs, hidden, id) ==
  \E i \in DOMAIN secs : secs[i].id = id /\ layoutId(i, Len(secs)) \in hidden

ReorderStep == lastEvent'.op = "reorder" /\ generatedPage' # generatedPage

\* C30: a reorder never changes which sections are hidden: every section is
\* hidden right after the reorder if and only if it was hidden right before
C30_ReorderKeepsHidden ==
  [][ReorderStep =>
       \A id \in SectionIds :
         HiddenIn(generatedPage.sections, hiddenSections, id)
           <=> HiddenIn(generatedPage'.sections, hiddenSections', id)]_vars

====
